---- MODULE Spec2Model ----
(***************************************************************************)
(* Model of the flux release engine (package release: plan, execute and    *)
(* the release actions) together with the value types it relies on         *)
(* (image.ImageID, instance.ImageMap).                                     *)
(*                                                                         *)
(* Strings that the code takes apart (image references) are sequences of   *)
(* one-character strings, so that parsing is computed, not assumed.        *)
(* Service ids are <<namespace, name>> pairs.                              *)
(***************************************************************************)
EXTENDS Integers, Sequences, FiniteSets, TLC

\* ------------------------------------------------------------- bounds
\* Largest number of services a service selector resolves to.
MaxServices == 2
\* Largest hand-built plan given to execute directly.
MaxPlan == 2
\* Last instant of the transport's clock, in ticks.
MaxClock == 3
\* Largest number of RoundTrip calls made on one transport.
MaxRequests == 3
\* Longest image reference given to the functions of image.ImageID.
MaxLen == 7
\* Longest list of images an ImageMap holds for a repository.
MaxImages == 2
\* Largest number of tags a repository has.
MaxTags == 3
\* Largest number of attempts the backoff round tripper makes upstream.
MaxAttempts == 2
\* The last tick of the clock of the backoff round tripper.
MaxBackoffClock == 2

\* ---------------------------------------------------------- constants
FluxServiceName == "fluxsvc"
FluxDaemonName == "fluxd"
ReleaseKindExecute == "execute"
ReleaseKindPlan == "plan"
ImageSpecLatest == "<all latest>"
ImageSpecNone == "<no updates>"
NoErr == ""

\* ------------------------------------------------- sequence utilities
\* With(v, LAMBDA x : e) is e with x bound to the value v.
With(v, F(_)) == F(v)

RECURSIVE Flatten(_)
Flatten(ss) == IF ss = <<>> THEN <<>> ELSE Head(ss) \o Flatten(Tail(ss))

RECURSIVE Text(_)
\* The Go string a character sequence stands for.
Text(s) == IF s = <<>> THEN "" ELSE Head(s) \o Text(Tail(s))

\* strconv.Quote, and the %q verb
Quote(msg) == "\"" \o msg \o "\""

RECURSIVE JoinText(_, _)
\* strings.Join over a sequence of strings.
JoinText(ss, sep) ==
  IF ss = <<>> THEN ""
  ELSE IF Len(ss) = 1 THEN ss[1]
  ELSE ss[1] \o sep \o JoinText(Tail(ss), sep)

Range(s) == { s[i] : i \in 1..Len(s) }

\* All sequences without repetition over S of length at most n.
DistinctSeqs(S, n) ==
  UNION { { s \in [1..k -> S] : \A i, j \in 1..k : i # j => s[i] # s[j] } : k \in 0..n }

\* All orders in which a Go `range` may visit the keys of a map.
Orders(S) == { s \in [1..Cardinality(S) -> S] : Range(s) = S }

\* -------------------------------------------------- image.ImageID
\* Index of the first occurrence of character c in s, 0 if there is none.
IndexOf(s, c) ==
  IF \E i \in 1..Len(s) : s[i] = c
  THEN CHOOSE i \in 1..Len(s) : s[i] = c /\ \A j \in 1..(i - 1) : s[j] # c
  ELSE 0

RECURSIVE SplitN(_, _, _)
\* strings.SplitN(s, sep, n) for n >= 1 and a one-character separator.
SplitN(s, sep, n) ==
  With(IndexOf(s, sep), LAMBDA i :
    IF n <= 1 \/ i = 0 THEN <<s>>
    ELSE <<SubSeq(s, 1, i - 1)>> \o SplitN(SubSeq(s, i + 1, Len(s)), sep, n - 1))

\* Faulty variant: the registry is left out.
MakeImageIDNoRegistry(registry, name, tag) ==
  IF tag # <<>> THEN name \o <<":">> \o tag ELSE name

MakeImageID(registry, name, tag) ==
  LET withReg == IF registry # <<>> THEN registry \o <<"/">> \o name ELSE name
  IN  IF tag # <<>> THEN withReg \o <<":">> \o tag ELSE withReg

Components(id) ==
  With(SplitN(id, "/", 3), LAMBDA toks :
    With(SplitN(IF Len(toks) = 3 THEN toks[2] \o <<"/">> \o toks[3] ELSE id, ":", 2),
         LAMBDA nt :
           [registry |-> IF Len(toks) = 3 THEN toks[1] ELSE <<>>,
            name |-> nt[1],
            tag |-> IF Len(nt) = 2 THEN nt[2] ELSE <<>>]))

\* Faulty variant: the registry is left out.
RepositoryNameOnly(id) == Components(id).name

Repository(id) ==
  With(Components(id), LAMBDA c :
    IF c.registry # <<>> /\ c.name # <<>> THEN c.registry \o <<"/">> \o c.name
    ELSE IF c.name # <<>> THEN c.name
    ELSE <<>>)

\* Simple case folding of one character (the letters the model uses).
Fold(c) ==
  CASE c = "L" -> "l" [] c = "A" -> "a" [] c = "T" -> "t"
    [] c = "E" -> "e" [] c = "S" -> "s" [] OTHER -> c

\* Faulty variant: the comparison minds the case.
EqualExact(s, t) == s = t

\* strings.EqualFold
EqualFold(s, t) ==
  /\ Len(s) = Len(t)
  /\ \A i \in 1..Len(s) : Fold(s[i]) = Fold(t[i])

LatestTag == <<"l", "a", "t", "e", "s", "t">>

\* ------------------------------------------------ instance.ImageMap
\* m[repo] of a Go map: the nil slice when the key is absent.
MapGet(m, repo) == IF repo \in DOMAIN m THEN m[repo] ELSE <<>>

RECURSIVE FirstReleasable(_)
FirstReleasable(list) ==
  IF list = <<>> THEN <<>>
  ELSE IF EqualFold(Components(Head(list).ID).tag, LatestTag)
       THEN FirstReleasable(Tail(list))
       ELSE <<Head(list)>>

\* ImageMap.LatestImage: <<>> for nil, <<image>> otherwise.
LatestImage(m, repo) == FirstReleasable(MapGet(m, repo))

ParseImageID(s) == s

WithTag(id, tag) == With(Components(id), LAMBDA c : MakeImageID(c.registry, c.name, tag))

\* ------------------------------------------- the modelled environment
\* Image references of the platform and the registry.
ImgA1 == <<"a", ":", "1">>
ImgA2 == <<"a", ":", "2">>
ImgALatest == <<"a", ":", "l", "a", "t", "e", "s", "t">>
ImgB1 == <<"b", ":", "1">>
ImgB2 == <<"b", ":", "2">>
ImgBUpper == <<"b", ":", "L", "A", "T", "E", "S", "T">>
ImgF1 == <<"q", "/", "o", "/", "f", ":", "1">>
ImgF2 == <<"q", "/", "o", "/", "f", ":", "2">>

\* flux.ImageDescription; CreatedAt 0 stands for the nil timestamp.
Desc(id, t) == [ID |-> id, CreatedAt |-> t]

\* What a registry may hold for each repository, newest first.
RegistryStates ==
  { (Repository(ImgA1) :> a) @@ (Repository(ImgB1) :> b) @@ (Repository(ImgF1) :> f) :
      a \in { <<>>, <<Desc(ImgA1, 1)>>,
              <<Desc(ImgALatest, 3), Desc(ImgA2, 2), Desc(ImgA1, 1)>> },
      b \in { <<Desc(ImgB1, 1)>>, <<Desc(ImgB2, 2), Desc(ImgB1, 1)>>,
              <<Desc(ImgBUpper, 2)>> },
      f \in { <<Desc(ImgF1, 1)>>, <<Desc(ImgF2, 2), Desc(ImgF1, 1)>> } }

\* flux.ServiceID "namespace/service" as a pair, and its two conversions.
ServiceComponents(id) == [namespace |-> id[1], service |-> id[2]]
ServiceString(id) == id[1] \o "/" \o id[2]

SvcA == <<"default", "a">>
SvcB == <<"default", "b">>
SvcU == <<"default", "u">>
SvcFlux == <<"default", FluxServiceName>>

\* platform.Service: Err is set when ContainersOrError fails.
Inventory ==
  { [ID |-> SvcA, Err |-> FALSE,
     Containers |-> <<[Name |-> "c", Image |-> ImgA1]>>],
    [ID |-> SvcB, Err |-> FALSE,
     Containers |-> <<[Name |-> "c", Image |-> ImgB1], [Name |-> "c", Image |-> ImgA1]>>],
    [ID |-> SvcU, Err |-> TRUE, Containers |-> <<>>],
    [ID |-> SvcFlux, Err |-> FALSE,
     Containers |-> <<[Name |-> "c", Image |-> ImgF1]>>] }

ServiceIDs == { s.ID : s \in Inventory }

\* The results a service selector may give.
ServiceSelections == DistinctSeqs(Inventory, MaxServices)

\* jobs.ReleaseJobParams.ImageSpec: the two keywords, or an image reference.
ImageSpecs ==
  { [spec |-> ImageSpecLatest, image |-> <<>>],
    [spec |-> ImageSpecNone, image |-> <<>>],
    [spec |-> "image", image |-> ImgA2],
    [spec |-> "image", image |-> ImgF2] }

\* The error of ContainersOrError for a service without container specs.
ContainersErrText == "no container specs found"

ContainersOrNil(service) == IF service.Err THEN <<>> ELSE service.Containers

IDsOf(services) == [i \in 1..Len(services) |-> services[i].ID]

\* ------------------------------------------------ image selection
\* client.GetImage of the registry client: the manifest of id, whose ID is
\* the one asked for, or the error of the lookup.
GetImage(registry, id) ==
  With(MapGet(registry, Repository(id)), LAMBDA list :
    IF \E i \in 1..Len(list) : list[i].ID = id
    THEN [err |-> NoErr, desc |-> Desc(WithTag(id, Components(id).tag), 0)]
    ELSE [err |-> "manifest unknown", desc |-> Desc(id, 0)])

\* The two implementations of registry.Client an Instance is made with:
\* the registry client, and the mock registry, which answers every lookup
\* with its first description and its error.
RealClient(registry) ==
  [mock |-> FALSE, registry |-> registry, descriptions |-> <<>>, err |-> NoErr]
MockClient(descriptions, e) ==
  [mock |-> TRUE, registry |-> <<>>, descriptions |-> descriptions, err |-> e]

\* h.registry.GetImage(string(image))
ClientGetImage(client, id) ==
  IF client.mock THEN [err |-> client.err, desc |-> client.descriptions[1]]
  ELSE GetImage(client.registry, id)

\* Faulty variant: every image whose lookup succeeds is taken to exist.
imageExistsUnchecked(client, id) ==
  With(ClientGetImage(client, id), LAMBDA g :
    IF g.err # NoErr THEN [err |-> g.err, exist |-> FALSE]
    ELSE [err |-> NoErr, exist |-> TRUE])

\* Instance.imageExists
imageExists(client, id) ==
  With(ClientGetImage(client, id), LAMBDA g :
    IF g.err # NoErr THEN [err |-> g.err, exist |-> FALSE]
    ELSE [err |-> NoErr, exist |-> g.desc.ID = id])

\* The text of flux.ErrInvalidImageID.
InvalidImageText == "invalid image ID"

\* The text of ErrTooManyPendingRequests, the error of a registry lookup
\* that the rate limiter refused.
TooManyPendingText == "too many pending requests"

RECURSIVE ExactImagesFrom(_, _, _)
\* The loop of ExactImages over the images left, m being the map so far;
\* cause is what errors.Cause gives for the error returned.
ExactImagesFrom(client, ids, m) ==
  IF ids = <<>> THEN [err |-> NoErr, cause |-> NoErr, images |-> m]
  ELSE With(imageExists(client, Head(ids)), LAMBDA e :
         IF e.err # NoErr
         THEN [err |-> e.err \o ": " \o InvalidImageText,
               cause |-> InvalidImageText, images |-> m]
         ELSE IF ~e.exist
         THEN [err |-> "image " \o Quote(Text(Head(ids))) \o " does not exist: "
                          \o InvalidImageText,
               cause |-> InvalidImageText, images |-> m]
         ELSE ExactImagesFrom(client, Tail(ids),
                (Repository(Head(ids)) :> <<Desc(Head(ids), 0)>>)
                  @@ [r \in DOMAIN m \ {Repository(Head(ids))} |-> m[r]]))

\* Instance.ExactImages
ExactImages(client, ids) == ExactImagesFrom(client, ids, <<>>)

\* CollectAvailableImages, lines 102-107: the keys of the map after the
\* first loop, one per repository of the services' containers.
Repos(services) ==
  { Repository(ParseImageID(c.Image)) :
      c \in UNION { Range(ContainersOrNil(services[i])) : i \in 1..Len(services) } }

RECURSIVE CollectFromPartial(_, _, _, _, _)
\* Faulty variant: after a failed fetch the map filled so far is returned.
CollectFromPartial(registry, order, failing, calls, m) ==
  IF order = <<>>
  THEN [err |-> NoErr, cause |-> NoErr, images |-> m, calls |-> calls]
  ELSE IF Head(order) \in DOMAIN failing
  THEN [err |-> "fetching image metadata for " \o Text(Head(order)) \o ": "
                  \o failing[Head(order)],
        cause |-> failing[Head(order)], images |-> m, calls |-> Append(calls, Head(order))]
  ELSE CollectFromPartial(registry, Tail(order), failing, Append(calls, Head(order)),
                          m @@ (Head(order) :> MapGet(registry, Head(order))))

RECURSIVE CollectFrom(_, _, _, _, _)
\* CollectAvailableImages, lines 108-115: GetRepository is called for the
\* keys in the order the range visits them; calls lists the calls made,
\* m is the map filled so far, failing gives the error of GetRepository
\* for the repositories whose fetch fails, and cause is what errors.Cause
\* gives for the error returned.
CollectFrom(registry, order, failing, calls, m) ==
  IF order = <<>>
  THEN [err |-> NoErr, cause |-> NoErr, images |-> m, calls |-> calls]
  ELSE IF Head(order) \in DOMAIN failing
  THEN [err |-> "fetching image metadata for " \o Text(Head(order)) \o ": "
                  \o failing[Head(order)],
        cause |-> failing[Head(order)], images |-> <<>>, calls |-> Append(calls, Head(order))]
  ELSE CollectFrom(registry, Tail(order), failing, Append(calls, Head(order)),
                   m @@ (Head(order) :> MapGet(registry, Head(order))))

\* Instance.CollectAvailableImages; order is the order in which the range
\* of line 108 visits the repositories.
CollectAvailableImages(registry, services, failing, order) ==
  CollectFrom(registry, order, failing, <<>>, <<>>)

ImageSelectorText(spec) ==
  CASE spec.spec = ImageSpecLatest -> "latest images"
    [] spec.spec = ImageSpecNone -> "latest config"
    [] OTHER -> Text(spec.image)

\* ImageSelectorForSpec(spec).SelectImages
SelectImages(spec, registry, services, failing, order) ==
  CASE spec.spec = ImageSpecLatest -> CollectAvailableImages(registry, services, failing, order)
    [] spec.spec = ImageSpecNone -> [err |-> NoErr, cause |-> NoErr, images |-> <<>>]
    [] OTHER -> ExactImages(RealClient(registry), <<ParseImageID(spec.image)>>)

\* ------------------------------------------------ CalculateUpdates
\* Faulty variant: an image that is already the latest is updated to itself.
ContainerStepAlways(service, container, images) ==
  With(ParseImageID(container.Image), LAMBDA cur :
    With(LatestImage(images, Repository(cur)), LAMBDA latest :
      IF latest = <<>> THEN [updates |-> <<>>, printed |-> <<>>]
      ELSE [updates |-> <<[Container |-> container.Name, Current |-> cur,
                           Target |-> latest[1].ID]>>,
            printed |-> <<>>]))

\* One pass of the inner loop: the ContainerUpdate appended and the
\* diagnostic printed for one container (each empty or a singleton).
ContainerStep(service, container, images) ==
  With(ParseImageID(container.Image), LAMBDA cur :
    With(LatestImage(images, Repository(cur)), LAMBDA latest :
      IF latest = <<>> THEN [updates |-> <<>>, printed |-> <<>>]
      ELSE IF cur = latest[1].ID
      THEN [updates |-> <<>>,
            printed |-> <<"Service " \o ServiceString(service.ID) \o " image " \o Text(cur)
                            \o " is already the latest one; skipping.">>]
      ELSE [updates |-> <<[Container |-> container.Name, Current |-> cur,
                           Target |-> latest[1].ID]>>,
            printed |-> <<>>]))

\* Faulty variant: the updates of a service are kept by container name,
\* so of two containers with one name only the later update remains.
ServiceStepByName(service, images) ==
  IF service.Err
  THEN [updates |-> <<>>,
        printed |-> <<"service " \o ServiceString(service.ID)
                        \o " does not have images associated: " \o ContainersErrText>>]
  ELSE With([i \in 1..Len(service.Containers) |->
               ContainerStep(service, service.Containers[i], images)],
            LAMBDA steps :
              [updates |-> Flatten([i \in 1..Len(steps) |->
                 IF \E j \in (i + 1)..Len(steps) :
                      /\ steps[j].updates # <<>>
                      /\ service.Containers[j].Name = service.Containers[i].Name
                 THEN <<>> ELSE steps[i].updates]),
               printed |-> Flatten([i \in 1..Len(steps) |-> steps[i].printed])])

\* One pass of the outer loop.
ServiceStep(service, images) ==
  IF service.Err
  THEN [updates |-> <<>>,
        printed |-> <<"service " \o ServiceString(service.ID)
                        \o " does not have images associated: " \o ContainersErrText>>]
  ELSE With([i \in 1..Len(service.Containers) |->
               ContainerStep(service, service.Containers[i], images)],
            LAMBDA steps :
              [updates |-> Flatten([i \in 1..Len(steps) |-> steps[i].updates]),
               printed |-> Flatten([i \in 1..Len(steps) |-> steps[i].printed])])

\* updateMap: service id -> its ContainerUpdates, in the order appended;
\* printed: the diagnostics in the order printf was called.
CalculateUpdates(services, images) ==
  With([i \in 1..Len(services) |-> ServiceStep(services[i], images)], LAMBDA steps :
    With([id \in Range(IDsOf(services)) |->
            Flatten([i \in 1..Len(services) |->
              IF services[i].ID = id THEN steps[i].updates ELSE <<>>])],
         LAMBDA all :
           [updateMap |-> [id \in { k \in DOMAIN all : all[k] # <<>> } |-> all[id]],
            printed |-> Flatten([i \in 1..Len(steps) |-> steps[i].printed])]))

\* ------------------------------------------------ the release actions
NoService == <<>>

\* A ReleaseAction. Do tells whether the action carries a closure; the
\* closure itself is named by Name and reads Service, Updates, Services, Msg.
Action(name, description, service, updates, svcs, msg) ==
  [Name |-> name, Description |-> description, Do |-> TRUE, Result |-> "",
   Service |-> service, Updates |-> updates, Services |-> svcs, Msg |-> msg]

releaseActionPrintf(text) == Action("printf", text, NoService, <<>>, <<>>, "")

releaseActionClone == Action("clone", "Clone the config repo.", NoService, <<>>, <<>>, "")

releaseActionFindPodController(service) ==
  Action("find_pod_controller",
         "Load the resource definition file for service " \o ServiceString(service),
         service, <<>>, <<>>, "")

UpdateText(u) == u.Container \o " (" \o Text(u.Current) \o " -> " \o Text(u.Target) \o ")"

releaseActionUpdatePodController(service, updates) ==
  Action("update_pod_controller",
         "Update " \o ToString(Len(updates)) \o " images(s) in the resource definition file for "
           \o ServiceString(service) \o ": "
           \o JoinText([i \in 1..Len(updates) |-> UpdateText(updates[i])], ", ") \o ".",
         service, updates, <<>>, "")

releaseActionCommitAndPush(msg) ==
  Action("commit_and_push", "Commit and push the config repo.", NoService, <<>>, <<>>, msg)

releaseActionReleaseServices(svcs, msg) ==
  Action("release_services",
         "Release " \o ToString(Len(svcs)) \o " service(s): "
           \o JoinText([i \in 1..Len(svcs) |-> ServiceString(svcs[i])], ", ") \o ".",
         NoService, <<>>, svcs, msg)

\* ------------------------------------------------------- planning
NoServicesText == "No selected services found. Nothing to do."
NoUpdatesText == "All selected services are running the requested images. Nothing to do."

\* Faulty variant: the empty selection is never noticed.
NothingSelectedNever(svcs) == FALSE
\* len(services) == 0: the selector resolved to nothing.
NothingSelected(svcs) == Len(svcs) = 0

\* Faulty variant: the empty update map is never noticed.
NothingToUpdateNever(updateMap) == FALSE
\* len(updateMap) <= 0
NothingToUpdate(updateMap) == Cardinality(DOMAIN updateMap) <= 0

\* Faulty variant: the loop misses the first service it visits.
UpdateActionsSkipFirst(order, updateMap) ==
  [i \in 1..(Len(order) - 1) |->
     releaseActionUpdatePodController(order[i + 1], updateMap[order[i + 1]])]
\* The update actions of the first `range updateMap` loop, visiting in order.
UpdateActions(order, updateMap) ==
  [i \in 1..Len(order) |-> releaseActionUpdatePodController(order[i], updateMap[order[i]])]

\* Faulty variant: the services are visited back to front.
LocateActionsReversed(svcs) ==
  [i \in 1..Len(svcs) |-> releaseActionFindPodController(svcs[Len(svcs) + 1 - i].ID)]
\* The locate actions of releaseWithoutUpdate's loop over the services.
LocateActions(svcs) ==
  [i \in 1..Len(svcs) |-> releaseActionFindPodController(svcs[i].ID)]

\* Releaser.releaseImages. sel is the outcome of SelectServices, img that
\* of SelectImages; order1 and order2 are the orders in which the two
\* `range updateMap` loops visit the map's keys.
releaseImages(msg, sel, img, order1, order2) ==
  With(CalculateUpdates(sel.services, img.images), LAMBDA calc :
    With([i \in 1..Len(calc.printed) |-> releaseActionPrintf(calc.printed[i])],
         LAMBDA printed :
      IF sel.err # NoErr
      THEN [err |-> "fetching platform services: " \o sel.err, actions |-> <<>>]
      ELSE IF NothingSelected(sel.services)
      THEN [err |-> NoErr,
            actions |-> <<releaseActionPrintf(msg), releaseActionPrintf(NoServicesText)>>]
      ELSE IF img.err # NoErr
      THEN [err |-> "collecting available images to calculate applies: " \o img.err,
            actions |-> <<>>]
      ELSE IF NothingToUpdate(calc.updateMap)
      THEN [err |-> NoErr,
            actions |-> <<releaseActionPrintf(msg)>> \o printed
                          \o <<releaseActionPrintf(NoUpdatesText)>>]
      ELSE [err |-> NoErr,
            actions |->
              <<releaseActionPrintf(msg)>> \o printed \o <<releaseActionClone>>
              \o UpdateActions(order1, calc.updateMap)
              \o <<releaseActionCommitAndPush(msg)>>
              \o <<releaseActionReleaseServices(order2, msg)>>]))

\* Releaser.releaseWithoutUpdate
releaseWithoutUpdate(msg, sel) ==
  IF sel.err # NoErr
  THEN [err |-> "fetching platform services: " \o sel.err, actions |-> <<>>]
  ELSE IF NothingSelected(sel.services)
  THEN [err |-> NoErr, actions |-> <<releaseActionPrintf(NoServicesText)>>]
  ELSE [err |-> NoErr,
        actions |->
          <<releaseActionPrintf(msg), releaseActionClone>>
          \o LocateActions(sel.services)
          \o <<releaseActionReleaseServices(IDsOf(sel.services), msg)>>]

\* The planner Releaser.plan chooses for an image spec.
MethodFor(spec) ==
  IF spec.spec = ImageSpecNone THEN "releaseWithoutUpdate" ELSE "releaseImages"

ReleaseMsg(spec) == "Release " \o ImageSelectorText(spec) \o " to services"

\* Releaser.plan
plan(spec, sel, img, order1, order2) ==
  IF MethodFor(spec) = "releaseWithoutUpdate"
  THEN releaseWithoutUpdate(ReleaseMsg(spec), sel)
  ELSE releaseImages(ReleaseMsg(spec), sel, img, order1, order2)

\* ------------------------------------------------------------ state
VARIABLES
  pc,         \* where Handle / execute stands
  kind,       \* params.Kind
  method,     \* the planner that built the plan ("direct": a plan given to execute)
  services,   \* the services the selector resolved to
  images,     \* the ImageMap the image selector returned
  actions,    \* the plan, with the results execute records
  err,        \* the error Handle / execute returned
  idx,        \* execute's loop index (1-based)
  trace,      \* progress sink lines and closure invocations, in order
  rcCreated,  \* number of NewReleaseContext calls
  rcCleaned,  \* number of rc.Clean calls
  cloned,     \* the checkout exists
  pods,       \* rc.PodControllers
  disk,       \* manifest files rewritten in the checkout
  pushed,     \* commits pushed
  applied,    \* the connector's Apply calls, with what each returned
  events,     \* audit events (Instance.LogEvent)
  async,      \* detached self applies dispatched and not yet run
  found       \* what kubernetes.FilesFor answered to each closure so far

releaseVars == <<pc, kind, method, services, images, actions, err, idx, trace,
                 rcCreated, rcCleaned, cloned, pods, disk, pushed, applied, events, async, found>>

\* The rate-limited transport (registry/rate_limit.go).
VARIABLES
  clock,      \* now(), in ticks
  maxBacklog, \* hostRateLimitedRoundTripper.maxBacklog, in ticks
  limits,     \* hostRateLimitedRoundTripper.limits: host -> limit
  callers,    \* where each concurrent caller of RoundTrip stands
  slots,      \* the requests permitted so far, with their scheduled slots
  rejected,   \* the requests refused with ErrTooManyPendingRequests
  served      \* the calls that reached the upstream round tripper

limiterVars == <<clock, maxBacklog, limits, callers, slots, rejected, served>>

\* The transport has not been constructed.
LimiterIdle ==
  /\ clock = 0 /\ maxBacklog = 0 /\ limits = <<>> /\ callers = <<>>
  /\ slots = {} /\ rejected = {} /\ served = {}

\* Calls of the pure functions of image.ImageID and instance.ImageMap.
VARIABLES
  op,         \* the function applied last ("ref", "query": none yet)
  ref,        \* the image reference the call is about
  query,      \* the ImageMap and repository the call is about
  ret         \* what the function returned

imageVars == <<op, ref, query, ret>>

NoQuery == [m |-> <<>>, repo |-> <<>>]

\* No function has been called.
ImagesIdle == op = "" /\ ref = <<>> /\ query = NoQuery /\ ret = <<>>

\* client.tagsToRepository (registry/registry.go).
VARIABLES
  tags,       \* the tags given to tagsToRepository
  fetchers,   \* where the fetch task of each tag stands, and its result
  fetched,    \* the buffered channel of results
  collected,  \* images[0:i], the results received so far
  tpc,        \* where tagsToRepository stands
  tret,       \* what tagsToRepository returned
  cancels     \* number of remote.Cancel calls

tagVars == <<tags, fetchers, fetched, collected, tpc, tret, cancels>>

NoReturn == [images |-> <<>>, err |-> NoErr]

\* tagsToRepository has not been called.
TagsIdle ==
  /\ tags = <<>> /\ fetchers = <<>> /\ fetched = <<>> /\ collected = <<>>
  /\ tpc = "" /\ tret = NoReturn /\ cancels = 0

\* hostBackoffRoundTripper (registry/rate_limit.go).
VARIABLES
  bnow,       \* now()
  bmax,       \* c.max, the maximum backoff
  backoffs,   \* c.backoffs: ratio and lastStarted of each key's backoff
  trips,      \* where each caller of RoundTrip stands
  waits,      \* the last call of backoff.Wait of each caller
  attempts,   \* the last upstream attempt of each caller
  tried       \* the number of upstream attempts so far

backoffVars == <<bnow, bmax, backoffs, trips, waits, attempts, tried>>

\* No hostBackoffRoundTripper has been made.
BackoffIdle ==
  /\ bnow = 0 /\ bmax = 0 /\ backoffs = <<>> /\ trips = <<>>
  /\ waits = {} /\ attempts = {} /\ tried = 0

\* What the release engine leaves alone.
otherVars == <<limiterVars, imageVars, tagVars, backoffVars>>
OtherIdle == LimiterIdle /\ ImagesIdle /\ TagsIdle /\ BackoffIdle

vars == <<releaseVars, otherVars>>

\* What the rate-limited transport leaves alone.
outsideLimiter == <<releaseVars, imageVars, tagVars, backoffVars>>

\* What the pure functions leave alone.
outsideImages == <<releaseVars, limiterVars, tagVars, backoffVars>>

\* What tagsToRepository leaves alone.
outsideTags == <<releaseVars, limiterVars, imageVars, backoffVars>>

\* What the backoff round tripper leaves alone.
outsideBackoff == <<releaseVars, limiterVars, imageVars, tagVars>>

\* No release job is being handled.
ReleaseIdle ==
  /\ pc = "idle" /\ kind = ReleaseKindPlan /\ method = "" /\ services = <<>>
  /\ images = <<>> /\ actions = <<>> /\ err = NoErr /\ idx = 0 /\ trace = <<>>
  /\ rcCreated = 0 /\ rcCleaned = 0 /\ cloned = FALSE /\ pods = <<>>
  /\ disk = <<>> /\ pushed = 0 /\ applied = <<>> /\ events = <<>> /\ async = <<>>
  /\ found = <<>>

planVars == <<kind, method, services, images>>
worldVars == <<cloned, pods, disk, pushed, applied, events, async, found>>

\* The part of the state the closures act on.
World ==
  [cloned |-> cloned, pods |-> pods, disk |-> disk, pushed |-> pushed,
   applied |-> applied, events |-> events, async |-> async, found |-> found]

Outcome(res, e, w) == [res |-> res, err |-> e, w |-> w]

\* --------------------------------------------------- the closures
\* A manifest file: the service it defines and the image rewrites applied.
OriginalDef(service) == [service |-> service, targets |-> <<>>]

\* ioutil.ReadFile of the service's manifest in the checkout
ReadDef(w, service) ==
  IF service \in DOMAIN w.disk THEN w.disk[service] ELSE OriginalDef(service)

\* kubernetes.UpdatePodController
UpdatePodController(def, target) == [def EXCEPT !.targets = Append(@, target)]

RECURSIVE UpdateAll(_, _)
UpdateAll(def, updates) ==
  IF updates = <<>> THEN def
  ELSE UpdateAll(UpdatePodController(def, Head(updates).Target), Tail(updates))

PrintfDo(a, w) == { Outcome("", NoErr, w) }

CloneDo(a, w) ==
  { Outcome("Clone OK.", NoErr, [w EXCEPT !.cloned = TRUE]),
    Outcome("", "clone the config repo: clone failed", w) }

\* What the file system and the manifest locator may answer.
FileAnswers == { "error", "none", "many", "unreadable", "one" }

\* The call of kubernetes.FilesFor by the closure of action a, answered f.
FilesFor(a, w, f) ==
  [w EXCEPT !.found = Append(@, [name |-> a.Name, service |-> a.Service, files |-> f])]

FindPodControllerDo(a, w) ==
  IF ~w.cloned
  THEN { Outcome("", "the resource path is not valid", w) }
  ELSE { With(FilesFor(a, w, f), LAMBDA v :
           CASE f = "error" ->
                Outcome("", "finding resource definition file for "
                              \o ServiceString(a.Service), v)
           [] f = "none" ->
                Outcome("no resource definition file found for "
                          \o ServiceString(a.Service) \o "; skipping", NoErr, v)
           [] f = "many" ->
                Outcome("", "multiple resource definition files found for "
                              \o ServiceString(a.Service), v)
           [] f = "unreadable" -> Outcome("", "read failed", v)
           [] OTHER ->
                Outcome("Found pod controller OK.", NoErr,
                        [v EXCEPT !.pods = (a.Service :> ReadDef(v, a.Service)) @@ @]))
         : f \in FileAnswers }

UpdateAnswers == FileAnswers \cup { "stat failed", "update failed", "write failed" }

\* The closure of update_pod_controller when FilesFor finds no file.
ZeroFiles(a, w) ==
  Outcome("no resource definition file found for "
            \o ServiceString(a.Service) \o "; skipping", NoErr, w)

UpdatePodControllerDo(a, w) ==
  IF ~w.cloned
  THEN { Outcome("", "the resource path is not valid", w) }
  ELSE { With(FilesFor(a, w, f), LAMBDA v :
           CASE f = "error" ->
                Outcome("", "finding resource definition file for "
                              \o ServiceString(a.Service), v)
           [] f = "none" -> ZeroFiles(a, v)
           [] f = "many" ->
                Outcome("", "multiple resource definition files found for "
                              \o ServiceString(a.Service), v)
           [] f = "unreadable" -> Outcome("", "read failed", v)
           [] f = "stat failed" -> Outcome("", "stat failed", v)
           [] f = "update failed" ->
                Outcome("", "updating pod controller for "
                              \o Text(a.Updates[1].Target), v)
           [] f = "write failed" -> Outcome("", "write failed", v)
           [] OTHER ->
                With(UpdateAll(ReadDef(v, a.Service), a.Updates), LAMBDA def :
                  Outcome("Update pod controller OK.", NoErr,
                          [v EXCEPT !.disk = (a.Service :> def) @@ @,
                                    !.pods = (a.Service :> def) @@ @])))
         : f \in UpdateAnswers }

CommitAndPushDo(a, w) ==
  IF ~w.cloned
  THEN { Outcome("", "the repo path is not valid", w) }
  ELSE { Outcome("Pushed commit: " \o a.Msg, NoErr, [w EXCEPT !.pushed = @ + 1]),
         Outcome("no changes made to files", NoErr, w),
         Outcome("", "push failed", w),
         Outcome("", "push stopped at 50%", w) }

\* ---------------------------------------- the release_services closure
IsSelf(service) ==
  ServiceComponents(service).service \in { FluxServiceName, FluxDaemonName }

ServiceDefinition(w, service) == [ServiceID |-> service, NewDefinition |-> w.pods[service]]

Event(service, text) ==
  [namespace |-> ServiceComponents(service).namespace,
   service |-> ServiceComponents(service).service,
   msg |-> text]

NoDefinitionText == "no definition found; skipping release"
ApplyErrorText(service) == "applying " \o ServiceString(service) \o " failed"
TransactionText(t) ==
  CASE t.kind = "nil" -> NoErr
    [] t.kind = "apply" -> "apply errors"
    [] OTHER -> "platform unreachable"

\* What the connector's Apply may return for the definitions it is given:
\* nil, a platform.ApplyError naming some of them, or another error.
ApplyReturns(defs) ==
  { [kind |-> "nil", failed |-> {}], [kind |-> "other", failed |-> {}] }
  \cup { [kind |-> "apply", failed |-> F] :
           F \in (SUBSET { defs[i].ServiceID : i \in 1..Len(defs) }) \ { {} } }

\* Faulty variant: a service without definition gets no entry.
SplatWithoutMissing(svcs, missing, t) ==
  CASE t.kind = "nil" -> <<>>
    [] t.kind = "apply" -> [s \in t.failed |-> ApplyErrorText(s)]
    [] OTHER -> [s \in Range(svcs) |-> TransactionText(t)]

\* Faulty variant: a per-service error map is treated as a coverall error.
SplatEverythingFailed(svcs, missing, t) ==
  IF t.kind = "nil" THEN [s \in missing |-> NoDefinitionText]
  ELSE [s \in Range(svcs) |-> TransactionText(t)]

\* Faulty variant: only a per-service error map is splatted.
SplatApplyErrorsOnly(svcs, missing, t) ==
  [s \in missing \cup t.failed |->
     IF s \in t.failed THEN ApplyErrorText(s) ELSE NoDefinitionText]

\* The results map once the transaction's error has been splatted into it.
\* missing: the services that had no definition.
SplatResults(svcs, missing, t) ==
  LET first == [s \in missing |-> NoDefinitionText]
  IN  CASE t.kind = "nil" -> first
        [] t.kind = "apply" ->
             [s \in missing \cup t.failed |->
                IF s \in t.failed THEN ApplyErrorText(s) ELSE first[s]]
        [] OTHER -> [s \in Range(svcs) |-> TransactionText(t)]

\* The audit event reporting one service's result; <<>> for a self service.
Report(service, results, msg) ==
  IF IsSelf(service) THEN <<>>
  ELSE IF service \notin DOMAIN results
       THEN <<Event(service, msg \o ". done")>>
       ELSE <<Event(service, msg \o ". error: " \o results[service] \o ". failed")>>

\* Faulty variant: self and other services are not told apart.
DefinitionsUnsorted(w, svcs, self) ==
  Flatten([i \in 1..Len(svcs) |->
    IF svcs[i] \in DOMAIN w.pods THEN <<ServiceDefinition(w, svcs[i])>> ELSE <<>>])

\* The definitions of the services of svcs that have one and for which
\* IsSelf is self, in the order of svcs.
Definitions(w, svcs, self) ==
  Flatten([i \in 1..Len(svcs) |->
    IF svcs[i] \in DOMAIN w.pods /\ IsSelf(svcs[i]) = self
    THEN <<ServiceDefinition(w, svcs[i])>>
    ELSE <<>>])

\* The audit events of the first loop.
Starting(w, svcs, cause) ==
  Flatten([i \in 1..Len(svcs) |->
    IF svcs[i] \notin DOMAIN w.pods THEN <<>>
    ELSE IF IsSelf(svcs[i])
    THEN <<Event(svcs[i], "Starting " \o cause \o ". (no result expected)")>>
    ELSE <<Event(svcs[i], "Starting " \o cause)>>])

\* The audit events of the reporting loop.
Reports(svcs, results, msg) ==
  Flatten([i \in 1..Len(svcs) |-> Report(svcs[i], results, msg)])

\* Faulty variant: the self definitions are applied only after a
\* transaction without error.
DetachedAfterSuccess(asyncDefs, t) == Len(asyncDefs) > 0 /\ t.kind = "nil"

\* if len(asyncDefs) > 0 { go ... }: whether the detached Apply is started,
\* t being what the transaction returned.
Detached(asyncDefs, t) == Len(asyncDefs) > 0

ReleaseServicesDo(a, w) ==
  With(Definitions(w, a.Services, FALSE), LAMBDA defs :
    With(Definitions(w, a.Services, TRUE), LAMBDA asyncDefs :
      { Outcome("", TransactionText(t),
          [w EXCEPT
             !.applied = Append(@, [defs |-> defs, sync |-> TRUE, result |-> t]),
             !.events = @ \o Starting(w, a.Services, Quote(a.Msg))
                          \o Reports(a.Services,
                                     SplatResults(a.Services,
                                       { s \in Range(a.Services) : s \notin DOMAIN w.pods }, t),
                                     a.Msg),
             !.async = IF Detached(asyncDefs, t) THEN Append(@, asyncDefs) ELSE @])
        : t \in ApplyReturns(defs) }))

\* A closure of a hand-built plan: it may return anything.
CustomDo(a, w) ==
  { Outcome("", NoErr, w), Outcome("custom result", NoErr, w),
    Outcome("", "custom error", w) }

\* action.Do(rc): every way the closure of action a can end in world w.
Do(a, w) ==
  CASE a.Name = "printf" -> PrintfDo(a, w)
    [] a.Name = "clone" -> CloneDo(a, w)
    [] a.Name = "find_pod_controller" -> FindPodControllerDo(a, w)
    [] a.Name = "update_pod_controller" -> UpdatePodControllerDo(a, w)
    [] a.Name = "commit_and_push" -> CommitAndPushDo(a, w)
    [] a.Name = "release_services" -> ReleaseServicesDo(a, w)
    [] OTHER -> CustomDo(a, w)

\* Plans given to execute directly: actions with or without a closure.
CustomAction(n, hasDo) ==
  [Action("custom", "custom action " \o ToString(n), NoService, <<>>, <<>>, "")
     EXCEPT !.Do = hasDo]

CustomPlans ==
  UNION { { [i \in 1..n |-> CustomAction(i, d[i])] : d \in [1..n -> BOOLEAN] } : n \in 0..MaxPlan }

\* ------------------------------------------------------------ actions
\* Texts that end in a percent sign.
EndInPercent == { "push stopped at 50%" }

\* fmt.Sprintf(format) without operands: a format without a percent sign
\* is printed as it is; a percent sign at the end is a verb that is missing.
Sprintf(format) ==
  IF format \in EndInPercent THEN format \o "!(NOVERB)" ELSE format

\* updateJob(format): the status the progress sink is sent.
Line(i, format) == [ev |-> "updateJob", idx |-> i, text |-> Sprintf(format), res |-> ""]
Call(i) == [ev |-> "do", idx |-> i, text |-> "", res |-> ""]
\* The closure of action i returned result res and error e.
Return(i, e, res) == [ev |-> "return", idx |-> i, text |-> e, res |-> res]

\* What SelectServices may return.
SelectReturns ==
  { [err |-> NoErr, services |-> s] : s \in ServiceSelections }
  \cup { [err |-> "platform error", services |-> <<>>] }

\* The repositories whose fetch may fail during image selection, with the
\* error of the fetch.
FetchFailures ==
  { <<>> } \cup { (Repository(ImgA1) :> e) : e \in { TooManyPendingText, "registry unreachable" } }

Init ==
  /\ pc = "start"
  /\ kind = ReleaseKindPlan
  /\ method = ""
  /\ services = <<>>
  /\ images = <<>>
  /\ actions = <<>>
  /\ err = NoErr
  /\ idx = 0
  /\ trace = <<>>
  /\ rcCreated = 0
  /\ rcCleaned = 0
  /\ cloned = FALSE
  /\ pods = <<>>
  /\ disk = <<>>
  /\ pushed = 0
  /\ applied = <<>>
  /\ events = <<>>
  /\ async = <<>>
  /\ found = <<>>
  /\ OtherIdle

\* Releaser.Handle up to its call of execute: report, plan, and return the
\* planning error if there is one.
Handle ==
  /\ pc = "start"
  /\ \E k \in { ReleaseKindExecute, ReleaseKindPlan }, spec \in ImageSpecs,
        sel \in SelectReturns, registry \in RegistryStates, failing \in FetchFailures :
       \E img \in { IF sel.err = NoErr /\ MethodFor(spec) = "releaseImages"
                    THEN SelectImages(spec, registry, sel.services, failing, fetchOrder)
                    ELSE [err |-> NoErr, cause |-> NoErr, images |-> <<>>] :
                    fetchOrder \in Orders(Repos(sel.services)) } :
         \E keys \in { DOMAIN CalculateUpdates(sel.services, img.images).updateMap } :
           \E order1 \in Orders(keys), order2 \in Orders(keys) :
             \E p \in { plan(spec, sel, img, order1, order2) } :
               /\ kind' = k
               /\ method' = MethodFor(spec)
               /\ services' = sel.services
               /\ images' = img.images
               /\ actions' = p.actions
               /\ err' = IF p.err # NoErr THEN "planning release: " \o p.err ELSE NoErr
               /\ pc' = IF p.err # NoErr THEN "done" ELSE "execute"
  /\ trace' = Append(trace, Line(0, "Calculating release actions."))
  /\ UNCHANGED <<idx, rcCreated, rcCleaned>>
  /\ UNCHANGED worldVars
  /\ UNCHANGED otherVars

\* execute called with a plan that no planner built.
ExecuteDirect ==
  /\ pc = "start"
  /\ \E k \in { ReleaseKindExecute, ReleaseKindPlan }, p \in CustomPlans :
       /\ kind' = k
       /\ actions' = p
  /\ method' = "direct"
  /\ pc' = "execute"
  /\ UNCHANGED <<services, images, err, idx, trace, rcCreated, rcCleaned>>
  /\ UNCHANGED worldVars
  /\ UNCHANGED otherVars

\* execute, lines 234-235: the release context is created.
ExecuteBegin ==
  /\ pc = "execute"
  /\ rcCreated' = rcCreated + 1
  /\ idx' = 1
  /\ pc' = "loop"
  /\ UNCHANGED <<actions, err, trace, rcCleaned>>
  /\ UNCHANGED planVars
  /\ UNCHANGED worldVars
  /\ UNCHANGED otherVars

\* Faulty variant: the loop does not advance.
NextIndexStays(i) == i
\* The index the loop visits after index i.
NextIndex(i) == i + 1

\* Faulty variant: the release kind is not looked at.
InvokesWhateverKind(a, k) == a.Do
\* Whether execute invokes the closure of action a.
Invokes(a, k) == a.Do /\ k = ReleaseKindExecute

\* The head of one loop iteration: the description goes to the progress
\* sink; an action that is not invoked is passed over.
ExecuteDescribe ==
  /\ pc = "loop"
  /\ idx <= Len(actions)
  /\ trace' = Append(trace, Line(idx, actions[idx].Description))
  /\ IF Invokes(actions[idx], kind)
     THEN pc' = "do" /\ idx' = idx
     ELSE pc' = "loop" /\ idx' = NextIndex(idx)
  /\ UNCHANGED <<actions, err, rcCreated, rcCleaned>>
  /\ UNCHANGED planVars
  /\ UNCHANGED worldVars
  /\ UNCHANGED otherVars

\* Faulty variant: only a failed clone stops the loop.
GoesOnUnlessCloneFailed(e) == e # "clone the config repo: clone failed"
\* Faulty variant: a failing closure does not stop the loop.
GoesOnRegardless(e) == TRUE
\* Whether the loop goes on after a closure that returned error e.
GoesOn(e) == e = NoErr

\* The rest of the iteration: the closure runs and its result is recorded.
ExecuteDo ==
  /\ pc = "do"
  /\ \E out \in Do(actions[idx], World) :
       /\ cloned' = out.w.cloned
       /\ pods' = out.w.pods
       /\ disk' = out.w.disk
       /\ pushed' = out.w.pushed
       /\ applied' = out.w.applied
       /\ events' = out.w.events
       /\ async' = out.w.async
       /\ found' = out.w.found
       /\ IF out.err # NoErr
          THEN /\ trace' = trace \o <<Call(idx), Return(idx, out.err, out.res), Line(idx, out.err)>>
               /\ actions' = [actions EXCEPT ![idx].Result = "Failed: " \o out.err]
          ELSE /\ trace' = trace \o <<Call(idx), Return(idx, NoErr, out.res)>>
                             \o (IF out.res # "" THEN <<Line(idx, out.res)>> ELSE <<>>)
               /\ actions' = [actions EXCEPT ![idx].Result = out.res]
       /\ IF GoesOn(out.err)
          THEN pc' = "loop" /\ idx' = NextIndex(idx) /\ err' = err
          ELSE pc' = "return" /\ idx' = idx /\ err' = out.err
  /\ UNCHANGED <<rcCreated, rcCleaned>>
  /\ UNCHANGED planVars
  /\ UNCHANGED otherVars

\* The loop is over: execute returns nil.
ExecuteEnd ==
  /\ pc = "loop"
  /\ idx > Len(actions)
  /\ pc' = "return"
  /\ err' = NoErr
  /\ UNCHANGED <<actions, idx, trace, rcCreated, rcCleaned>>
  /\ UNCHANGED planVars
  /\ UNCHANGED worldVars
  /\ UNCHANGED otherVars

\* Faulty variant: the checkout is removed on success only.
CleansOnSuccessOnly(e) == e = NoErr
\* Whether the deferred rc.Clean runs when execute returns error e.
CleansOnReturn(e) == TRUE

\* execute returns: the deferred rc.Clean removes the checkout.
ExecuteReturn ==
  /\ pc = "return"
  /\ rcCleaned' = IF CleansOnReturn(err) THEN rcCleaned + 1 ELSE rcCleaned
  /\ cloned' = IF CleansOnReturn(err) THEN FALSE ELSE cloned
  /\ pc' = "done"
  /\ UNCHANGED <<actions, err, idx, trace, rcCreated>>
  /\ UNCHANGED planVars
  /\ UNCHANGED <<pods, disk, pushed, applied, events, async, found>>
  /\ UNCHANGED otherVars

\* The detached task of release_services applies the self definitions;
\* nothing reads what the connector returns.
SelfApply ==
  /\ async # <<>>
  /\ \E t \in ApplyReturns(Head(async)) :
       applied' = Append(applied, [defs |-> Head(async), sync |-> FALSE, result |-> t])
  /\ async' = Tail(async)
  /\ UNCHANGED <<pc, actions, err, idx, trace, rcCreated, rcCleaned>>
  /\ UNCHANGED planVars
  /\ UNCHANGED <<cloned, pods, disk, pushed, events, found>>
  /\ UNCHANGED otherVars

Next ==
  \/ Handle
  \/ ExecuteDirect
  \/ ExecuteBegin
  \/ ExecuteDescribe
  \/ ExecuteDo
  \/ ExecuteEnd
  \/ ExecuteReturn
  \/ SelfApply

Spec == Init /\ [][Next]_vars

\* ============================== the rate-limited transport
\* registry/rate_limit.go, lines 57-129: hostRateLimitedRoundTripper.
\* Times are in ticks; time.Second is Second ticks.
Second == 2

Hosts == { "host1", "host2" }
Callers == { "c1", "c2" }

\* The limits map the transport is constructed with: maxRequestsPerSecond
\* of each host, 0 meaning no limit.
RateTables ==
  { [h \in Hosts |-> IF h = "host1" THEN a ELSE b] : a \in { 1, 2 }, b \in { 0, 1 } }

\* The maxBacklog values the transport is constructed with.
Backlogs == { -1, 0, 1, Second }

\* limit{maxRequestsPerSecond: max}: nextRequestAt is the zero time.
NewLimit(max) == [maxRequestsPerSecond |-> max, nextRequestAt |-> 0]

\* 1 * time.Second / time.Duration(maxRequestsPerSecond)
Interval(max) == Second \div max

\* if limit.nextRequestAt.Before(t) { limit.nextRequestAt = t }
Slot(lim, t) == IF lim.nextRequestAt < t THEN t ELSE lim.nextRequestAt

\* newNextRequest
NewNextRequest(lim, t) == Slot(lim, t) + Interval(lim.maxRequestsPerSecond)

\* Faulty variant: the backlog is never looked at.
TooManyPendingNever(backlog, lim, t) == FALSE
\* c.maxBacklog > 0 && newNextRequest.After(t.Add(c.maxBacklog))
TooManyPending(backlog, lim, t) ==
  backlog > 0 /\ NewNextRequest(lim, t) > t + backlog

\* Faulty variant: the limit is stored for every host.
StoreLimitEverywhere(table, host, lim) == [h \in DOMAIN table |-> lim]
\* c.limits[host] = limit
StoreLimit(table, host, lim) == [table EXCEPT ![host] = lim]

\* Faulty variant: the refused request's slot is stored as well.
LimitsAtUnlockStored(table, host, lim, t, refused) ==
  StoreLimit(table, host, [lim EXCEPT !.nextRequestAt = NewNextRequest(lim, t)])

\* The limits map when the write lock is released: a refused request
\* returns before the store of lines 121-122, which a permitted one reaches.
LimitsAtUnlock(table, host, lim, t, refused) ==
  IF refused THEN table
  ELSE StoreLimit(table, host, [lim EXCEPT !.nextRequestAt = NewNextRequest(lim, t)])

\* A caller between two RoundTrip calls, n calls behind it.
Between(n) ==
  [pc |-> "idle", n |-> n, host |-> "", limit |-> NewLimit(0), t |-> 0, sleep |-> 0]

\* The number of RoundTrip calls entered so far: those that returned and
\* those under way.
Started ==
  Cardinality(served) + Cardinality(rejected)
    + Cardinality({ c \in Callers : callers[c].pc # "idle" })

\* HostRateLimitedRoundTripper(r, maxBacklog, limits)
LimiterInit ==
  /\ clock = 1
  /\ maxBacklog \in Backlogs
  /\ limits \in { [h \in Hosts |-> NewLimit(r[h])] : r \in RateTables }
  /\ callers = [c \in Callers |-> Between(0)]
  /\ slots = {}
  /\ rejected = {}
  /\ served = {}
  /\ ReleaseIdle
  /\ ImagesIdle
  /\ TagsIdle
  /\ BackoffIdle

\* RoundTrip, lines 103-109: the host's limit is copied under the read lock.
RoundTripRead ==
  /\ \E c \in Callers, h \in Hosts :
       /\ callers[c].pc = "idle"
       /\ Started < MaxRequests
       /\ callers' = [callers EXCEPT ![c] =
            [@ EXCEPT !.pc = IF limits[h].maxRequestsPerSecond > 0 THEN "lock" ELSE "sleep",
                      !.host = h, !.limit = limits[h]]]
  /\ UNCHANGED <<clock, maxBacklog, limits, slots, rejected, served>>
  /\ UNCHANGED outsideLimiter

\* RoundTrip, lines 110-124: under the write lock, the slot is computed
\* from the copy and the copy is stored, or the request is refused.
RoundTripLock ==
  /\ \E c \in Callers :
       /\ callers[c].pc = "lock"
       /\ \E lim \in { callers[c].limit } :
            IF TooManyPending(maxBacklog, lim, clock)
            THEN /\ rejected' = rejected \cup {
                      [caller |-> c, n |-> callers[c].n, host |-> callers[c].host,
                       t |-> clock, wait |-> Slot(lim, clock) - clock,
                       next |-> NewNextRequest(lim, clock)] }
                 /\ callers' = [callers EXCEPT ![c] = Between(@.n + 1)]
                 /\ limits' = LimitsAtUnlock(limits, callers[c].host, lim, clock, TRUE)
                 /\ UNCHANGED slots
            ELSE /\ limits' = LimitsAtUnlock(limits, callers[c].host, lim, clock, FALSE)
                 /\ slots' = slots \cup {
                      [caller |-> c, n |-> callers[c].n, host |-> callers[c].host,
                       t |-> clock, at |-> Slot(lim, clock),
                       next |-> NewNextRequest(lim, clock)] }
                 /\ callers' = [callers EXCEPT ![c] =
                      [@ EXCEPT !.pc = "sleep", !.t = clock,
                                !.sleep = Slot(lim, clock) - clock]]
                 /\ UNCHANGED rejected
  /\ UNCHANGED <<clock, maxBacklog, served>>
  /\ UNCHANGED outsideLimiter

\* RoundTrip, lines 126-128: time.Sleep(sleep) is over and the request
\* goes to the upstream round tripper.
RoundTripUpstream ==
  /\ \E c \in Callers :
       /\ callers[c].pc = "sleep"
       /\ clock >= callers[c].t + callers[c].sleep
       /\ served' = served \cup {
            [caller |-> c, n |-> callers[c].n, host |-> callers[c].host, at |-> clock] }
       /\ callers' = [callers EXCEPT ![c] = Between(@.n + 1)]
  /\ UNCHANGED <<clock, maxBacklog, limits, slots, rejected>>
  /\ UNCHANGED outsideLimiter

\* Time passes.
Tick ==
  /\ clock < MaxClock
  /\ clock' = clock + 1
  /\ UNCHANGED <<maxBacklog, limits, callers, slots, rejected, served>>
  /\ UNCHANGED outsideLimiter

LimiterNext ==
  \/ RoundTripRead
  \/ RoundTripLock
  \/ RoundTripUpstream
  \/ Tick

SpecLimiter == LimiterInit /\ [][LimiterNext]_vars

\* ================= calls of image.ImageID and instance.ImageMap
\* The characters image references are made of.
Alphabet == { "a", "/", ":" }

\* The image references the functions are given: every string over the
\* alphabet up to the length bound.
Refs == UNION { [1..k -> Alphabet] : k \in 0..MaxLen }

ImgAUpper == <<"a", ":", "L", "A", "T", "E", "S", "T">>
ImgAMixed == <<"a", ":", "L", "a", "t", "e", "s", "t">>

\* The images a repository's list is made of.
Listed == { ImgA1, ImgA2, ImgALatest, ImgAUpper, ImgAMixed }

\* The lists an ImageMap may hold for a repository.
ImageLists ==
  UNION { { [i \in 1..k |-> Desc(l[i], 0)] : l \in [1..k -> Listed] } : k \in 0..MaxImages }

\* The ImageMaps and repositories LatestImage is called with: the
\* repository may be absent from the map.
Queries ==
  { [m |-> <<>>, repo |-> Repository(ImgA1)] }
  \cup { [m |-> (Repository(ImgA1) :> l), repo |-> r] :
           l \in ImageLists, r \in { Repository(ImgA1), Repository(ImgB1) } }

\* The registries an Instance is made with.
Clients ==
  { RealClient(r) : r \in RegistryStates }
  \cup { MockClient(<<Desc(ImgA1, 1)>>, e) : e \in { NoErr, TooManyPendingText } }

\* The images ExactImages is called with.
Requested == { <<>>, ImgA1, ImgA2, ImgB2 }
ExactQueries ==
  { [client |-> c, ids |-> ids] :
      c \in Clients, ids \in UNION { [1..k -> Requested] : k \in 0..MaxImages } }

\* The registries, services and failing fetches CollectAvailableImages is
\* called with.
CollectFailures ==
  UNION { [R -> { TooManyPendingText, "registry unreachable" }] :
            R \in SUBSET { Repository(ImgA1), Repository(ImgB1) } }

CollectQueries ==
  UNION { { [registry |-> r, services |-> sv, failing |-> f, order |-> o] :
              r \in RegistryStates, f \in CollectFailures, o \in Orders(Repos(sv)) } :
          sv \in ServiceSelections }

ImagesInit ==
  /\ \/ op = "ref" /\ ref \in Refs /\ query = NoQuery
     \/ op = "query" /\ ref = <<>> /\ query \in Queries
     \/ op = "exact" /\ ref = <<>> /\ query \in ExactQueries
     \/ op = "collect" /\ ref = <<>> /\ query \in CollectQueries
  /\ ret = <<>>
  /\ ReleaseIdle
  /\ LimiterIdle
  /\ TagsIdle
  /\ BackoffIdle

\* ParseImageID(ref).Components()
CallComponents ==
  /\ op = "ref"
  /\ op' = "Components"
  /\ ret' = Components(ParseImageID(ref))
  /\ UNCHANGED <<ref, query>>
  /\ UNCHANGED outsideImages

\* MakeImageID applied to the three results of Components
CallMakeImageID ==
  /\ op = "Components"
  /\ op' = "MakeImageID"
  /\ ret' = MakeImageID(ret.registry, ret.name, ret.tag)
  /\ UNCHANGED <<ref, query>>
  /\ UNCHANGED outsideImages

\* ParseImageID(ref).Repository()
CallRepository ==
  /\ op = "ref"
  /\ op' = "Repository"
  /\ ret' = Repository(ParseImageID(ref))
  /\ UNCHANGED <<ref, query>>
  /\ UNCHANGED outsideImages

\* m.LatestImage(repo)
CallLatestImage ==
  /\ op = "query"
  /\ op' = "LatestImage"
  /\ ret' = LatestImage(query.m, query.repo)
  /\ UNCHANGED <<ref, query>>
  /\ UNCHANGED outsideImages

\* h.imageExists(id) for the first of the images
CallImageExists ==
  /\ op = "exact"
  /\ query.ids # <<>>
  /\ op' = "imageExists"
  /\ ret' = imageExists(query.client, query.ids[1])
  /\ UNCHANGED <<ref, query>>
  /\ UNCHANGED outsideImages

\* h.ExactImages(ids)
CallExactImages ==
  /\ op \in {"exact", "imageExists"}
  /\ op' = "ExactImages"
  /\ ret' = ExactImages(query.client, query.ids)
  /\ UNCHANGED <<ref, query>>
  /\ UNCHANGED outsideImages

\* h.CollectAvailableImages(services)
CallCollectAvailableImages ==
  /\ op = "collect"
  /\ op' = "CollectAvailableImages"
  /\ ret' = CollectAvailableImages(query.registry, query.services, query.failing, query.order)
  /\ UNCHANGED <<ref, query>>
  /\ UNCHANGED outsideImages

ImagesNext ==
  \/ CallComponents
  \/ CallMakeImageID
  \/ CallRepository
  \/ CallLatestImage
  \/ CallImageExists
  \/ CallExactImages
  \/ CallCollectAvailableImages

SpecImages == ImagesInit /\ [][ImagesNext]_vars

\* ======================================== client.tagsToRepository
\* The repository whose tags are fetched.
TagRepo == <<"a">>

\* The tags a repository may have, in the order remote.Tags lists them.
TagNames == <<"1", "2", "3", "4">>

\* The position of a character in the order Go compares strings by.
Ord(c) ==
  CASE c = "/" -> 1 [] c = "1" -> 2 [] c = "2" -> 3 [] c = "3" -> 4
    [] c = "4" -> 5 [] c = ":" -> 6 [] OTHER -> 7

RECURSIVE StringLess(_, _)
\* s < t on Go strings
StringLess(s, t) ==
  IF t = <<>> THEN FALSE
  ELSE IF s = <<>> THEN TRUE
  ELSE IF Head(s) = Head(t) THEN StringLess(Tail(s), Tail(t))
  ELSE Ord(Head(s)) < Ord(Head(t))

\* The creation times a manifest may carry; 0 is the nil CreatedAt.
CreationTimes == { 0, 1, 2 }

\* Faulty variant: equal creation times are not told apart by ID.
LessByTimeOnly(a, b) ==
  IF a.CreatedAt = 0 THEN TRUE
  ELSE IF b.CreatedAt = 0 THEN FALSE
  ELSE a.CreatedAt > b.CreatedAt

\* byCreatedDesc.Less
Less(a, b) ==
  IF a.CreatedAt = 0 THEN TRUE
  ELSE IF b.CreatedAt = 0 THEN FALSE
  ELSE IF a.CreatedAt = b.CreatedAt THEN StringLess(a.ID, b.ID)
  ELSE a.CreatedAt > b.CreatedAt

RECURSIVE Insert(_, _)
\* The inner loop of sort's insertion sort: x moves left past every
\* neighbour it is Less than.
Insert(sorted, x) ==
  IF sorted = <<>> THEN <<x>>
  ELSE IF Less(x, sorted[Len(sorted)])
       THEN Insert(SubSeq(sorted, 1, Len(sorted) - 1), x) \o <<sorted[Len(sorted)]>>
       ELSE Append(sorted, x)

RECURSIVE SortFrom(_, _)
SortFrom(sorted, rest) ==
  IF rest = <<>> THEN sorted ELSE SortFrom(Insert(sorted, Head(rest)), Tail(rest))

\* sort.Sort(byCreatedDesc(images)): an insertion sort for lists this short.
Sort(is) == SortFrom(<<>>, is)

\* What remote.LookupTag(t) may return: a description, or an error.
LookupReturns(t) ==
  { [image |-> Desc(WithTag(TagRepo, <<t>>), c), err |-> NoErr] : c \in CreationTimes }
  \cup { [image |-> Desc(<<>>, 0), err |-> "manifest unknown"] }

\* What remote.Tags() may return: the tags of the repository, or an error.
TagsReturns ==
  { [tags |-> SubSeq(TagNames, 1, n), err |-> NoErr] : n \in 0..MaxTags }
  \cup { [tags |-> <<>>, err |-> "tags unknown"] }

\* Faulty variant: the transport is not released.
CancelNever(n) == n

\* remote.Cancel(): one more call of Cancel on the remote.
Cancel(n) == n + 1

\* Faulty variant: the channel holds one result.
CapacityOne(ts) == 1

\* make(chan result, len(tags)): the capacity of the channel.
Capacity(ts) == Len(ts)

TagsInit ==
  /\ tags = <<>>
  /\ fetchers = <<>>
  /\ fetched = <<>>
  /\ collected = <<>>
  /\ tpc = "create"
  /\ tret = NoReturn
  /\ cancels = 0
  /\ ReleaseIdle
  /\ LimiterIdle
  /\ ImagesIdle
  /\ BackoffIdle

\* GetRepository, lines 42-51: the remote client is created and wrapped in
\* a Remote, or the factory's error is returned.
GetRepositoryCreate ==
  /\ tpc = "create"
  /\ \/ tpc' = "tags" /\ tret' = tret
     \/ tpc' = "refused" /\ tret' = [images |-> <<>>, err |-> "no client"]
  /\ UNCHANGED <<tags, fetchers, fetched, collected, cancels>>
  /\ UNCHANGED outsideTags

\* GetRepository, lines 53-64: the tags are listed; an error cancels the
\* remote and ends the call, otherwise tagsToRepository is called.
GetRepositoryTags ==
  /\ tpc = "tags"
  /\ \E r \in TagsReturns :
       IF r.err # NoErr
       THEN /\ cancels' = Cancel(cancels)
            /\ tret' = [images |-> <<>>, err |-> r.err]
            /\ tpc' = "failed"
            /\ tags' = tags
       ELSE /\ tags' = r.tags
            /\ tpc' = "launch"
            /\ UNCHANGED <<tret, cancels>>
  /\ UNCHANGED <<fetchers, fetched, collected>>
  /\ UNCHANGED outsideTags

\* GetImage, lines 69-78: the remote client is created and wrapped in a
\* Remote, or the factory's error is returned.
GetImageCreate ==
  /\ tpc = "create"
  /\ \/ tpc' = "lookup" /\ tret' = tret
     \/ tpc' = "unmade" /\ tret' = [images |-> <<>>, err |-> "no client"]
  /\ UNCHANGED <<tags, fetchers, fetched, collected, cancels>>
  /\ UNCHANGED outsideTags

\* GetImage, line 80: what remote.Lookup() returns is returned.
GetImageLookup ==
  /\ tpc = "lookup"
  /\ \E r \in LookupReturns(TagNames[1]) :
       tret' = [images |-> <<r.image>>, err |-> r.err]
  /\ tpc' = "looked"
  /\ UNCHANGED <<tags, fetchers, fetched, collected, cancels>>
  /\ UNCHANGED outsideTags

\* tagsToRepository, lines 92-102: the channel is made and one task is
\* started per tag.
TagsLaunch ==
  /\ tpc = "launch"
  /\ fetchers' = [i \in 1..Len(tags) |-> [pc |-> "lookup", res |-> NoReturn]]
  /\ tpc' = "collect"
  /\ UNCHANGED <<tags, fetched, collected, tret, cancels>>
  /\ UNCHANGED outsideTags

\* A fetch task, line 96: remote.LookupTag returns.
FetchLookup ==
  /\ \E i \in 1..Len(fetchers) :
       /\ fetchers[i].pc = "lookup"
       /\ \E r \in LookupReturns(tags[i]) :
            fetchers' = [fetchers EXCEPT ![i] = [pc |-> "send", res |-> r]]
  /\ UNCHANGED <<tags, fetched, collected, tpc, tret, cancels>>
  /\ UNCHANGED outsideTags

\* A fetch task, line 100: the result goes into the channel, which has
\* room for len(tags) results.
FetchSend ==
  /\ \E i \in 1..Len(fetchers) :
       /\ fetchers[i].pc = "send"
       /\ Len(fetched) < Capacity(tags)
       /\ fetched' = Append(fetched, fetchers[i].res)
       /\ fetchers' = [fetchers EXCEPT ![i].pc = "done"]
  /\ UNCHANGED <<tags, collected, tpc, tret, cancels>>
  /\ UNCHANGED outsideTags

\* tagsToRepository, lines 105-111: one result is received; an error ends
\* the call, with the deferred remote.Cancel.
TagsReceive ==
  /\ tpc = "collect"
  /\ Len(collected) < Capacity(tags)
  /\ fetched # <<>>
  /\ fetched' = Tail(fetched)
  /\ IF Head(fetched).err # NoErr
     THEN /\ tret' = [images |-> <<>>, err |-> Head(fetched).err]
          /\ tpc' = "done"
          /\ cancels' = Cancel(cancels)
          /\ UNCHANGED collected
     ELSE /\ collected' = Append(collected, Head(fetched).image)
          /\ UNCHANGED <<tpc, tret, cancels>>
  /\ UNCHANGED <<tags, fetchers>>
  /\ UNCHANGED outsideTags

\* tagsToRepository, lines 113-114: every result is in; the images are
\* sorted and returned, with the deferred remote.Cancel.
TagsReturn ==
  /\ tpc = "collect"
  /\ Len(collected) = Capacity(tags)
  /\ tret' = [images |-> Sort(collected), err |-> NoErr]
  /\ tpc' = "done"
  /\ cancels' = Cancel(cancels)
  /\ UNCHANGED <<tags, fetchers, fetched, collected>>
  /\ UNCHANGED outsideTags

TagsNext ==
  \/ GetRepositoryCreate
  \/ GetRepositoryTags
  \/ GetImageCreate
  \/ GetImageLookup
  \/ TagsLaunch
  \/ FetchLookup
  \/ FetchSend
  \/ TagsReceive
  \/ TagsReturn

SpecTags == TagsInit /\ [][TagsNext]_vars

\* A task that can send is scheduled: the Go runtime runs every runnable
\* goroutine.
SpecTagsFair == TagsInit /\ [][TagsNext]_vars /\ WF_vars(FetchSend)

\* ======================================== hostBackoffRoundTripper
\* http.StatusTooManyRequests
StatusTooManyRequests == 429

\* http.StatusOK
StatusOK == 200

\* The error text the docker registry client gives for a rate-limited
\* request, and another error.
HAP429Text == "Too Many Requests (HAP429)."
OtherErrText == "connection refused"

\* What the upstream round tripper may return: a response with a status,
\* or no response and an error.
UpstreamReturns ==
  { [status |-> st, err |-> NoErr] : st \in { StatusOK, StatusTooManyRequests } }
  \cup { [status |-> 0, err |-> e] : e \in { HAP429Text, OtherErrText } }

\* The requests made through the round tripper: the host of the URL, and
\* the user and password of the basic authentication when there is one.
BackoffRequests ==
  { [host |-> "host1", auth |-> FALSE, user |-> "", pass |-> ""],
    [host |-> "host1", auth |-> TRUE, user |-> "u", pass |-> "p"],
    [host |-> "host1", auth |-> TRUE, user |-> "u", pass |-> "q"] }

\* Faulty variant: the key is the host alone.
KeyOfHost(q) == [host |-> q.host, user |-> "", pass |-> ""]

\* RoundTrip, lines 216-220: the key of a request's backoff
Key(q) ==
  IF q.auth THEN [host |-> q.host, user |-> q.user, pass |-> q.pass]
  ELSE [host |-> q.host, user |-> "", pass |-> ""]

\* The keys of c.backoffs: host, user and password of a request.
BackoffKeys == { Key(q) : q \in BackoffRequests }

\* The maximum backoffs a round tripper is made with, in ticks.
MaxBackoffs == { 0, 100 }

\* Ratios are kept as multiples of 1/Scale, which is exact for
\* MaxAttempts updates of a ratio that starts at 0.
Scale == 10 ^ MaxAttempts

\* &backoff{max: c.max}
NewBackoff == [ratio |-> 0, lastStarted |-> 0]

\* backoff.finish: the moving average over n = 10 outcomes
finish(ratio, newValue) == (9 * ratio + newValue * Scale) \div 10

\* backoff.Success
Success(ratio) == finish(ratio, 0)

\* backoff.Failure
Failure(ratio) == finish(ratio, 1)

\* backoff.Wait, line 284
Wait(b, max, t) == ((b.ratio * b.ratio * max) \div (Scale * Scale)) - (t - b.lastStarted)

\* RoundTrip, lines 234-240: the cases of the switch that back off and
\* retry.
RateLimited(r) ==
  \/ r.err = HAP429Text
  \/ r.err = NoErr /\ r.status # StatusTooManyRequests

\* The number of upstream attempts made so far.
Attempted == tried

\* A caller outside RoundTrip.
IdleTrip == [pc |-> "idle", req |-> <<>>, key |-> <<>>, wake |-> 0, since |-> 0]

\* The values now() may have given for the argument of b.Wait: it is read
\* before Wait takes the lock of the backoff, at any time since the caller
\* came to the head of the loop.
NowRead(since, t) == since..t

BackoffInit ==
  /\ bnow = 1
  /\ bmax \in MaxBackoffs
  /\ backoffs = <<>>
  /\ trips = [c \in Callers |-> IdleTrip]
  /\ waits = {}
  /\ attempts = {}
  /\ tried = 0
  /\ ReleaseIdle
  /\ LimiterIdle
  /\ ImagesIdle
  /\ TagsIdle

\* RoundTrip, lines 216-227: the key's backoff is looked up, and made when
\* there is none.
BackoffEnter ==
  /\ \E c \in Callers : \E q \in BackoffRequests : \E k \in { Key(q) } :
       /\ trips[c].pc = "idle"
       /\ Attempted + Cardinality({ d \in Callers : trips[d].pc \in {"wait", "sleep"} }) < MaxAttempts
       /\ backoffs' = IF k \in DOMAIN backoffs THEN backoffs
                      ELSE [x \in DOMAIN backoffs \cup {k} |->
                              IF x = k THEN NewBackoff ELSE backoffs[x]]
       /\ trips' = [trips EXCEPT ![c] =
            [pc |-> "wait", req |-> q, key |-> k, wake |-> 0, since |-> bnow]]
  /\ UNCHANGED <<bnow, bmax, waits, attempts, tried>>
  /\ UNCHANGED outsideBackoff

\* RoundTrip, line 231: b.Wait(now()) gives the time to sleep and notes
\* the start of the attempt.
BackoffWait ==
  /\ \E c \in Callers :
       /\ trips[c].pc = "wait"
       /\ Attempted < MaxAttempts
       /\ \E t \in NowRead(trips[c].since, bnow) :
          \E res \in { Wait(backoffs[trips[c].key], bmax, t) } :
            /\ waits' = { w \in waits : w.caller # c } \cup
                 { [caller |-> c, key |-> trips[c].key, t |-> t,
                    ratio |-> backoffs[trips[c].key].ratio,
                    lastStarted |-> backoffs[trips[c].key].lastStarted,
                    res |-> res] }
            /\ trips' = [trips EXCEPT ![c].pc = "sleep",
                                      ![c].wake = IF res > 0 THEN bnow + res ELSE bnow]
            /\ backoffs' = [backoffs EXCEPT ![trips[c].key].lastStarted = t]
  /\ UNCHANGED <<bnow, bmax, attempts, tried>>
  /\ UNCHANGED outsideBackoff

\* RoundTrip, lines 233-245: the sleep is over, the request goes upstream,
\* and the switch either backs off and retries or returns.
BackoffTry ==
  /\ \E c \in Callers : \E r \in UpstreamReturns :
       /\ trips[c].pc = "sleep"
       /\ bnow >= trips[c].wake
       /\ \E before \in { backoffs[trips[c].key].ratio } :
          \E after \in { IF RateLimited(r) THEN Failure(before) ELSE Success(before) } :
            /\ backoffs' = [backoffs EXCEPT ![trips[c].key].ratio = after]
            /\ attempts' = { a \in attempts : a.caller # c } \cup
                 { [caller |-> c, key |-> trips[c].key,
                    upstream |-> r, before |-> before, after |-> after,
                    returned |-> ~RateLimited(r)] }
       /\ trips' = [trips EXCEPT ![c] =
                      IF RateLimited(r)
                      THEN [trips[c] EXCEPT !.pc = "wait", !.wake = 0, !.since = bnow]
                      ELSE IdleTrip]
  /\ tried' = tried + 1
  /\ UNCHANGED <<bnow, bmax, waits>>
  /\ UNCHANGED outsideBackoff

\* Time passes.
BackoffTick ==
  /\ bnow > 0
  /\ bnow < MaxBackoffClock
  /\ bnow' = bnow + 1
  /\ UNCHANGED <<bmax, backoffs, trips, waits, attempts, tried>>
  /\ UNCHANGED outsideBackoff

BackoffNext ==
  \/ BackoffEnter
  \/ BackoffWait
  \/ BackoffTry
  \/ BackoffTick

SpecBackoff == BackoffInit /\ [][BackoffNext]_vars

\* ============================================================ claims
\* Positions of the trace holding an event of kind ev.
At(ev) == { n \in 1..Len(trace) : trace[n].ev = ev }

\* Positions at which a closure returned an error.
FailedAt == { n \in At("return") : trace[n].text # NoErr }

\* Planning failed: Handle returned before execute.
PlanFailed == pc = "done" /\ actions = <<>> /\ err # NoErr

\* A planner has just returned the plan, which execute is about to be given.
Planned == pc = "execute" /\ method \in { "releaseImages", "releaseWithoutUpdate" }

MutatingNames == { "clone", "update_pod_controller", "commit_and_push", "release_services" }

\* C1: in execute mode, once a closure has returned an error, execute
\* returns that error, no closure is invoked afterwards, and every later
\* action's Result is still empty.
C1_FailFast ==
  \A n \in FailedAt :
    /\ kind = ReleaseKindExecute
    /\ pc \in { "return", "done" }
    /\ err = trace[n].text
    /\ \A m \in At("do") : m < n
    /\ \A j \in (trace[n].idx + 1)..Len(actions) : actions[j].Result = ""

\* A run in which a closure failed with actions still to come.
C1_Witness ==
  /\ pc = "done"
  /\ \E n \in FailedAt : trace[n].idx < Len(actions)

\* C2: when the kind is not execute, no closure is ever invoked and every
\* action's Result stays as planned (empty), whatever the plan.
C2_PlanOnlyInvokesNothing ==
  kind # ReleaseKindExecute =>
    /\ At("do") = {}
    /\ \A j \in 1..Len(actions) : actions[j].Result = ""
    /\ ~cloned /\ pushed = 0 /\ applied = <<>> /\ events = <<>>

\* A plan-only run over a plan with mutating actions, finished.
C2_Witness ==
  /\ pc = "done"
  /\ kind = ReleaseKindPlan
  /\ \E j \in 1..Len(actions) : actions[j].Name = "release_services"
  /\ \E j \in 1..Len(actions) : actions[j].Name = "custom" \/ actions[j].Name = "clone"

\* C3: closures are invoked in strictly increasing plan index, hence each
\* at most once; before an action's closure is invoked its description has
\* been sent to the progress sink, after every earlier closure returned.
C3_PlanOrder ==
  /\ \A m, n \in At("do") : m < n => trace[m].idx < trace[n].idx
  /\ \A n \in At("do") :
       /\ n < Len(trace) /\ trace[n + 1].ev = "return" /\ trace[n + 1].idx = trace[n].idx
       /\ \E m \in At("updateJob") :
            /\ m < n
            /\ trace[m].idx = trace[n].idx
            /\ trace[m].text = actions[trace[n].idx].Description
            /\ \A k \in At("do") \cup At("return") : trace[k].idx < trace[n].idx => k < m

\* A run in which three closures were invoked.
C3_Witness == Cardinality(At("do")) >= 3

\* C4: the release context is created once, before any action is
\* processed, and cleaned exactly once on every way out of execute.
C4_ContextCleaned ==
  /\ rcCreated <= 1 /\ rcCleaned <= rcCreated
  /\ (\E n \in 1..Len(trace) : trace[n].idx >= 1) => rcCreated = 1
  /\ pc \in { "loop", "do", "return" } => rcCreated = 1 /\ rcCleaned = 0
  /\ (pc = "done" /\ ~PlanFailed) => rcCreated = 1 /\ rcCleaned = 1

\* execute has returned an error, and the context is cleaned.
C4_Witness ==
  /\ pc = "done"
  /\ FailedAt # {}
  /\ rcCleaned = 1

\* The other ways out of execute: all succeeded, plan only, empty plan.
C4_WitnessSuccess ==
  pc = "done" /\ kind = ReleaseKindExecute /\ err = NoErr /\ Cardinality(At("do")) >= 2
C4_WitnessPlanOnly == pc = "done" /\ kind = ReleaseKindPlan /\ Len(actions) >= 2
C4_WitnessEmpty == pc = "done" /\ method = "direct" /\ actions = <<>> /\ rcCleaned = 1

\* ------------------------------------------------- planning claims
Names == [i \in 1..Len(actions) |-> actions[i].Name]

\* The update map and diagnostics of the plan's inputs.
Calc == CalculateUpdates(services, images)

\* Positions of the plan holding an action named name.
Named(name) == { i \in 1..Len(actions) : actions[i].Name = name }

\* The plan is one informational action and nothing else.
SingleNotice == Len(actions) = 1 /\ actions[1].Name = "printf"

\* C5 as stated: with zero services selected, either planner returns a
\* plan of exactly one action, an informational one.
C5_AsStated == (Planned /\ Len(services) = 0) => SingleNotice

\* C5, amended: with zero services selected the plan holds informational
\* actions only, ending with the "No selected services" notice;
\* releaseWithoutUpdate returns that notice alone, releaseImages returns
\* the header followed by the notice.
C5_NoServices ==
  (Planned /\ Len(services) = 0) =>
    /\ \A i \in 1..Len(actions) : actions[i].Name = "printf"
    /\ actions[Len(actions)].Description = NoServicesText
    /\ Len(actions) = IF method = "releaseImages" THEN 2 ELSE 1

\* releaseImages planned for zero services.
C5_Witness ==
  /\ Planned /\ method = "releaseImages" /\ Len(services) = 0
  /\ kind = ReleaseKindExecute

\* releaseImages planned for at least one service.
ImagesPlanned == Planned /\ method = "releaseImages" /\ Len(services) >= 1

\* C6 as stated: services selected and no update found: releaseImages
\* returns a plan of exactly one action, an informational one.
C6_AsStated ==
  (ImagesPlanned /\ DOMAIN Calc.updateMap = {}) => SingleNotice

\* C6, amended: services selected and no update found: the plan holds
\* informational actions only: the header, one action per diagnostic of
\* CalculateUpdates in the order printed, and last the "Nothing to do" notice.
C6_NoUpdates ==
  ImagesPlanned =>
    With(Calc, LAMBDA c :
      DOMAIN c.updateMap = {} =>
        /\ \A i \in 1..Len(actions) : actions[i].Name = "printf"
        /\ Len(actions) = Len(c.printed) + 2
        /\ \A i \in 1..Len(c.printed) : actions[i + 1].Description = c.printed[i]
        /\ actions[Len(actions)].Description = NoUpdatesText)

\* Services selected, nothing to update, and a diagnostic in the plan.
C6_Witness ==
  /\ ImagesPlanned
  /\ DOMAIN Calc.updateMap = {}
  /\ Len(actions) >= 3

\* The shape of a releaseImages plan for update map um, after its first
\* `lead` actions: clone, one update per service with updates, commit and
\* push, and release of exactly those services.
MutatingTail(lead, um) ==
  With(Cardinality(DOMAIN um), LAMBDA n :
    /\ Len(actions) = lead + n + 3
    /\ actions[lead + 1].Name = "clone"
    /\ \A i \in 1..n : actions[lead + 1 + i].Name = "update_pod_controller"
    /\ \A s \in DOMAIN um :
         \E i \in 1..n : /\ actions[lead + 1 + i].Service = s
                         /\ actions[lead + 1 + i].Updates = um[s]
    /\ actions[lead + n + 2].Name = "commit_and_push"
    /\ actions[lead + n + 3].Name = "release_services"
    /\ Len(actions[lead + n + 3].Services) = n
    /\ Range(actions[lead + n + 3].Services) = DOMAIN um)

\* C7 as stated: the header is directly followed by the clone action.
C7_AsStated ==
  ImagesPlanned =>
    With(Calc, LAMBDA c :
      DOMAIN c.updateMap # {} =>
        (actions[1].Name = "printf" /\ MutatingTail(1, c.updateMap)))

\* C7, amended: header, then one informational action per diagnostic of
\* CalculateUpdates (possibly none), then clone, one update-manifest action
\* per service with updates, commit-and-push, and release-services listing
\* exactly the services with updates.
C7_PlanShape ==
  ImagesPlanned =>
    With(Calc, LAMBDA c :
      DOMAIN c.updateMap # {} =>
        /\ \A i \in 1..(Len(c.printed) + 1) : actions[i].Name = "printf"
        /\ \A i \in 1..Len(c.printed) : actions[i + 1].Description = c.printed[i]
        /\ MutatingTail(Len(c.printed) + 1, c.updateMap))

\* Two services with updates and a diagnostic between header and clone.
C7_Witness ==
  /\ ImagesPlanned
  /\ With(Calc, LAMBDA c :
       Cardinality(DOMAIN c.updateMap) >= 2 /\ Len(c.printed) >= 1)

\* The plan of releaseWithoutUpdate for at least one service.
LocateThenRelease ==
  /\ actions[1].Name = "printf" /\ actions[2].Name = "clone"
  /\ Named("find_pod_controller") = { i + 2 : i \in 1..Len(services) }
  /\ \A i \in 1..Len(services) : actions[i + 2].Service = services[i].ID
  /\ Named("release_services") = { Len(services) + 3 }
  /\ Len(actions) = Len(services) + 3
  /\ actions[Len(actions)].Services = IDsOf(services)

NoManifestMutation ==
  Named("update_pod_controller") = {} /\ Named("commit_and_push") = {}

\* The locate actions of the plan, in plan order.
Located == SelectSeq(actions, LAMBDA a : a.Name = "find_pod_controller")

\* C8 as stated: for every N the plan holds no update-manifest and no
\* commit-and-push action, N locate actions, one per selected service in
\* selection order, and after them exactly one release-services action
\* listing those services.
C8_AsStated ==
  (Planned /\ method = "releaseWithoutUpdate") =>
    /\ NoManifestMutation
    /\ [i \in 1..Len(Located) |-> Located[i].Service] = IDsOf(services)
    /\ Cardinality(Named("release_services")) = 1
    /\ \A r \in Named("release_services") :
         /\ \A l \in Named("find_pod_controller") : l < r
         /\ actions[r].Services = IDsOf(services)

\* C8, amended: a releaseWithoutUpdate plan never holds an update-manifest
\* or commit-and-push action; for N >= 1 selected services it is a header,
\* a clone action, N locate actions, one per service in selection order, and
\* one release-services action listing them; for N = 0 it is the single
\* "No selected services" notice, without a release-services action.
C8_WithoutUpdate ==
  (Planned /\ method = "releaseWithoutUpdate") =>
    /\ NoManifestMutation
    /\ IF Len(services) >= 1 THEN LocateThenRelease
       ELSE SingleNotice /\ actions[1].Description = NoServicesText

\* releaseWithoutUpdate planned for two services.
C8_Witness ==
  /\ Planned /\ method = "releaseWithoutUpdate" /\ Len(services) >= 2

\* ---------------------------------------- release-services claims
\* The synchronous Apply calls made so far.
SyncApplies == { n \in 1..Len(applied) : applied[n].sync }

\* The texts of the audit events emitted for service s.
EventTexts(s) ==
  { events[n].msg : n \in { k \in 1..Len(events) : events[k] = Event(s, events[k].msg) } }

DoneText(a) == a.Msg \o ". done"
FailedText(a, e) == a.Msg \o ". error: " \o e \o ". failed"
StartingText(a) == "Starting " \o Quote(a.Msg)

\* The release-services action of a planner's plan, once its closure ran.
Released ==
  { i \in Named("release_services") :
      method # "direct" /\ \E n \in At("return") : trace[n].idx = i }

\* The services the connector was given in its synchronous call n.
Sent(n) == { applied[n].defs[i].ServiceID : i \in 1..Len(applied[n].defs) }

\* C9: when Apply returns a per-service error map naming only X among the
\* non-self services it was given, the audit events report "done" for each
\* of the others and "error ... failed" for X only.
C9_PartialFailureIsolated ==
  \A i \in Released, n \in SyncApplies :
    (applied[n].result.kind = "apply" /\ Cardinality(applied[n].result.failed) = 1) =>
      \A s \in Sent(n) :
        IF s \in applied[n].result.failed
        THEN EventTexts(s) =
               { StartingText(actions[i]), FailedText(actions[i], ApplyErrorText(s)) }
        ELSE EventTexts(s) = { StartingText(actions[i]), DoneText(actions[i]) }

\* Apply was given two services and its error map names one of them.
C9_Witness ==
  \E i \in Released, n \in SyncApplies :
    /\ applied[n].result.kind = "apply"
    /\ Cardinality(applied[n].result.failed) = 1
    /\ Len(applied[n].defs) = 2

\* C10: when Apply returns an error that is no per-service map, every
\* non-self service of the action is reported failed with that error,
\* whether or not it had a manifest, and none is reported done.
C10_CoverallFailsAll ==
  \A i \in Released, n \in SyncApplies :
    applied[n].result.kind = "other" =>
      \A s \in Range(actions[i].Services) :
        ~IsSelf(s) =>
          /\ FailedText(actions[i], TransactionText(applied[n].result)) \in EventTexts(s)
          /\ EventTexts(s) \subseteq
               { StartingText(actions[i]),
                 FailedText(actions[i], TransactionText(applied[n].result)) }

\* A coverall error with two non-self services, one of them without manifest.
C10_Witness ==
  \E i \in Released, n \in SyncApplies :
    /\ applied[n].result.kind = "other"
    /\ Cardinality({ s \in Range(actions[i].Services) : ~IsSelf(s) }) = 2
    /\ Len(applied[n].defs) = 1

\* The detached applies that have run so far.
DetachedApplies == { n \in 1..Len(applied) : ~applied[n].sync }

\* The release-services action has returned and every non-self service of
\* it has its "done" or "failed" audit event.
ReleaseReported ==
  \E i \in Released :
    \A s \in Range(actions[i].Services) :
      ~IsSelf(s) =>
        \E e \in EventTexts(s) : e # StartingText(actions[i])

\* C11: self services (fluxsvc, fluxd) are never in the synchronous Apply
\* batch; their Apply is dispatched as a detached task only once the
\* synchronous batch has returned and every non-self audit event is out,
\* and the action has returned whenever that task is still pending or runs.
C11_SelfDetached ==
  /\ \A n \in SyncApplies : \A s \in Sent(n) : ~IsSelf(s)
  /\ \A n \in DetachedApplies :
       /\ \A s \in Sent(n) : IsSelf(s)
       /\ \E m \in SyncApplies : m < n
  /\ (async # <<>> \/ DetachedApplies # {}) =>
       (SyncApplies # {} /\ ReleaseReported)

\* execute is over, whatever the synchronous batch returned, while the
\* detached apply of a self service has not run; a sibling was reported.
C11_Witness ==
  /\ pc = "done"
  /\ async # <<>>
  /\ \E n \in SyncApplies : Len(applied[n].defs) >= 1
  /\ ReleaseReported

\* The detached apply ran after execute was over, and failed.
C11_WitnessLate ==
  /\ pc = "done"
  /\ \E n \in DetachedApplies : applied[n].result.kind # "nil"

\* ------------------------------------------- rate limiter claims
\* The request a log entry is about.
Request(x) == <<x.caller, x.n>>

\* C12: the scheduled slots of any two permitted requests to one limited
\* host are at least 1/R apart, whatever the interleaving of the callers.
C12_SlotsApart ==
  \A x, y \in slots :
    (x # y /\ x.host = y.host) =>
      \/ x.at - y.at >= Interval(limits[x.host].maxRequestsPerSecond)
      \/ y.at - x.at >= Interval(limits[x.host].maxRequestsPerSecond)

\* Two callers were given the very same slot of one host.
C12_SameSlot ==
  \E x, y \in slots : x # y /\ x.host = y.host /\ x.at = y.at

\* C13: with maxBacklog > 0 no request is permitted, put to sleep or sent
\* upstream whose wait for its slot exceeds maxBacklog; a request is
\* refused when the end of its slot lies more than maxBacklog ahead, and a
\* refused request has no slot, no sleep and no upstream call; with
\* maxBacklog <= 0 no request is refused.
C13_Backlog ==
  /\ maxBacklog > 0 => \A x \in slots : x.at - x.t <= maxBacklog
  /\ \A x \in rejected :
       /\ maxBacklog > 0
       /\ x.next - x.t > maxBacklog
       /\ \A y \in slots \cup served : Request(y) # Request(x)
  /\ \A c \in Callers :
       (callers[c].pc = "sleep" /\ callers[c].limit.maxRequestsPerSecond > 0) =>
         /\ \E y \in slots : Request(y) = <<c, callers[c].n>>
         /\ maxBacklog > 0 => callers[c].sleep <= maxBacklog
  /\ maxBacklog <= 0 => rejected = {}

\* A request was refused while an earlier one to the same host was served.
C13_Witness ==
  \E x \in rejected, y \in served : x.host = y.host /\ x.wait > 0

\* Without a backlog limit, a request waits for a slot two intervals ahead.
C13_WitnessUnlimited ==
  /\ maxBacklog <= 0
  /\ \E x \in slots : x.at - x.t >= 2 * Interval(limits[x.host].maxRequestsPerSecond)

\* C14: a host's nextRequestAt is only ever set by a permitted request to
\* that host, and a request is delayed or refused only on account of
\* permitted requests to its own host.
C14_PerHost ==
  /\ \A h \in Hosts :
       IF \E y \in slots : y.host = h
       THEN \E y \in slots : y.host = h /\ limits[h].nextRequestAt = y.next
       ELSE limits[h].nextRequestAt = 0
  /\ \A x \in slots :
       \/ x.at = x.t
       \/ \E y \in slots : y # x /\ y.host = x.host /\ x.at = y.next
  /\ \A x \in rejected :
       \/ x.wait = 0
       \/ \E y \in slots : y.host = x.host /\ x.t + x.wait = y.next

\* While host1 has requests waiting, a request to host2 gets its slot at
\* once, both hosts being limited.
C14_Witness ==
  \E x, y \in slots :
    /\ x.host = "host1" /\ x.at > x.t
    /\ y.host = "host2" /\ y.at = y.t /\ y.t >= x.t

\* --------------------------------- image reference and ImageMap claims
\* The spellings of the tag "latest" among the listed images.
LatestSpellings ==
  { Components(ImgALatest).tag, Components(ImgAUpper).tag, Components(ImgAMixed).tag }

\* The list the queried ImageMap holds for the queried repository.
Queried == IF query.repo \in DOMAIN query.m THEN query.m[query.repo] ELSE <<>>

\* The positions of the queried list holding an image not tagged latest.
Releasable ==
  { i \in 1..Len(Queried) : Components(Queried[i].ID).tag \notin LatestSpellings }

\* C15: LatestImage returns the first entry of the repository's list whose
\* tag is not "latest" in any casing, and none when the repository is
\* absent, its list is empty or every entry is tagged latest.
C15_LatestImage ==
  op = "LatestImage" =>
    IF Releasable = {} THEN ret = <<>>
    ELSE /\ Len(ret) = 1
         /\ \E i \in Releasable :
              /\ ret[1] = Queried[i]
              /\ \A j \in Releasable : i <= j
         /\ Components(ret[1].ID).tag \notin LatestSpellings

\* The list starts with an image tagged LATEST and the second entry is
\* returned.
C15_Witness ==
  /\ op = "LatestImage"
  /\ Len(Queried) = 2
  /\ Queried[1].ID = ImgAUpper
  /\ ret = <<Queried[2]>>

\* None is returned for an absent repository and for a list of latest only.
C15_WitnessNone ==
  /\ op = "LatestImage" /\ ret = <<>>
  /\ Len(Queried) = 2 /\ Queried[1].ID = ImgAMixed

\* The number of "/" in reference x: one less than its segments.
Slashes(x) == Cardinality({ i \in 1..Len(x) : x[i] = "/" })

\* Reference x from its first "/" on, that one left out.
AfterFirstSlash(x) == SubSeq(x, IndexOf(x, "/") + 1, Len(x))

\* The part of x in which Components looks for the tag.
NamePart(x) == IF Slashes(x) >= 2 THEN AfterFirstSlash(x) ELSE x

\* x does not start with "/" when it has three or more segments.
HasRegistry(x) == Slashes(x) >= 2 => x[1] # "/"

\* The first ":" of the name part, if there is one, is followed by a tag.
HasTagAfterColon(x) ==
  With(IndexOf(NamePart(x), ":"), LAMBDA i : i = 0 \/ i < Len(NamePart(x)))

\* C17 as stated: for every reference of at most three segments,
\* MakeImageID of its Components is the reference.
C17_AsStated ==
  (op = "MakeImageID" /\ Slashes(ref) <= 2) => ret = ref

\* C17, amended: MakeImageID of the Components of x is x exactly when x
\* does not start with "/" if it has three or more segments, and the first
\* ":" of its name part, if any, is followed by a non-empty tag.
C17_RoundTrip ==
  op = "MakeImageID" => (ret = ref <=> (HasRegistry(ref) /\ HasTagAfterColon(ref)))

\* A reference of three segments with a tag came back unchanged.
C17_Witness ==
  /\ op = "MakeImageID" /\ ret = ref
  /\ Slashes(ref) = 2 /\ Len(ref) = MaxLen
  /\ Components(ref).tag # <<>> /\ Components(ref).registry # <<>>

\* Repository() followed by ":" and the tag is the reference; without a
\* tag, Repository() is the reference up to a trailing ":".
RepositoryKeepsAll ==
  With(Components(ref).tag, LAMBDA tag :
    IF tag # <<>> THEN ret \o <<":">> \o tag = ref
    ELSE ret = ref \/ ret \o <<":">> = ref)

\* C18 as stated: for every reference, Repository() holds everything but
\* the tag.
C18_AsStated == op = "Repository" => RepositoryKeepsAll

\* The name part of x does not start with ":" when x has three or more
\* segments.
HasName(x) == Slashes(x) >= 2 => Head(NamePart(x)) # ":"

\* C18, amended: Repository() holds everything but the tag exactly when a
\* reference of three or more segments has a non-empty first segment and a
\* non-empty name; in such a reference the whole first segment, a ":" in it
\* included, is the registry.
C18_Repository ==
  op = "Repository" =>
    /\ RepositoryKeepsAll <=> (HasRegistry(ref) /\ HasName(ref))
    /\ (Slashes(ref) >= 2 /\ HasRegistry(ref)) =>
         Components(ref).registry = SubSeq(ref, 1, IndexOf(ref, "/") - 1)

\* A tagged reference of three segments.
C18_Witness ==
  /\ op = "Repository" /\ RepositoryKeepsAll
  /\ Slashes(ref) = 2 /\ Len(ref) = MaxLen
  /\ Components(ref).tag # <<>> /\ Components(ref).registry # <<>>

\* A reference whose registry has a port: the ":" is not a tag separator.
C18_WitnessPort ==
  /\ op = "Repository" /\ ret = ref
  /\ Slashes(ref) = 2
  /\ IndexOf(ref, ":") \in 2..(IndexOf(ref, "/") - 2)

\* ------------------------------------------- CalculateUpdates claim
\* The selected services whose containers can be read.
Readable == SelectSeq(services, LAMBDA sv : ~sv.Err)

\* The running images of service sv that are the latest releasable image
\* of their repository.
UpToDate(sv) ==
  { ParseImageID(sv.Containers[i].Image) : i \in
      { k \in 1..Len(sv.Containers) :
          With(ParseImageID(sv.Containers[k].Image), LAMBDA cur :
            LatestImage(images, Repository(cur)) # <<>>
              /\ LatestImage(images, Repository(cur))[1].ID = cur) } }

\* C16: CalculateUpdates gives no ContainerUpdate for a container whose
\* image is the latest releasable one of its repository; a service whose
\* containers cannot be read gets a diagnostic and no update, and the
\* update map is the one computed for the other services alone.
C16_CalculateUpdates ==
  ImagesPlanned =>
    With(Calc, LAMBDA c :
      /\ \A i \in 1..Len(services) :
           IF services[i].Err
           THEN /\ services[i].ID \notin DOMAIN c.updateMap
                /\ \E n \in 1..Len(c.printed) :
                     c.printed[n] = "service " \o ServiceString(services[i].ID)
                       \o " does not have images associated: " \o ContainersErrText
           ELSE services[i].ID \in DOMAIN c.updateMap =>
                  \A n \in 1..Len(c.updateMap[services[i].ID]) :
                    /\ c.updateMap[services[i].ID][n].Current \notin UpToDate(services[i])
                    /\ c.updateMap[services[i].ID][n].Current
                         # c.updateMap[services[i].ID][n].Target
      /\ c.updateMap = CalculateUpdates(Readable, images).updateMap)

\* An unreadable service was selected before one that gets an update.
C16_Witness ==
  /\ ImagesPlanned
  /\ Len(services) = 2 /\ services[1].Err
  /\ services[2].ID \in DOMAIN Calc.updateMap

\* One container of a service is up to date while the other is updated.
C16_WitnessUpToDate ==
  /\ ImagesPlanned
  /\ \E i \in 1..Len(services) :
       /\ UpToDate(services[i]) # {}
       /\ services[i].ID \in DOMAIN Calc.updateMap

\* ---------------------------------------------------------------- C19
\* The fetches whose LookupTag has returned an error.
FailedFetches == { i \in 1..Len(fetchers) : fetchers[i].res.err # NoErr }

\* The image IDs tagsToRepository was asked for, one per tag.
Wanted == { WithTag(TagRepo, <<tags[i]>>) : i \in 1..Len(tags) }

\* a stands before b rightly: newer first, equal creation times by
\* ascending ID.
InOrder(a, b) ==
  \/ a.CreatedAt > b.CreatedAt
  \/ a.CreatedAt = b.CreatedAt /\ StringLess(a.ID, b.ID)

\* The images that carry a creation time are in order among themselves,
\* and stand behind those that carry none.
SortedByCreation(is) ==
  \A i \in 1..Len(is) : \A j \in (i + 1)..Len(is) :
     /\ is[j].CreatedAt = 0 => is[i].CreatedAt = 0
     /\ is[i].CreatedAt # 0 /\ is[j].CreatedAt # 0 => InOrder(is[i], is[j])

\* C19: tagsToRepository over N tags starts N fetch tasks before it
\* receives any result. When every fetch succeeds it returns exactly N
\* descriptions, one per tag, newest first, with equal creation times in
\* ascending order of ID. When a fetch has failed it returns an error and
\* no list of images, never a part of the list.
C19_TagsToRepository ==
  /\ tpc \in {"collect", "done"} => Len(fetchers) = Len(tags)
  /\ tpc = "done" =>
       /\ tret.err # NoErr <=> FailedFetches # {}
       /\ tret.err # NoErr => tret.images = <<>>
       /\ tret.err = NoErr =>
            /\ Len(tret.images) = Len(tags)
            /\ { tret.images[i].ID : i \in 1..Len(tags) } = Wanted
            /\ SortedByCreation(tret.images)
  /\ tpc \in {"launch", "collect"} => tret = NoReturn

\* Three fetches succeeded, two with the same creation time, and their
\* results arrived in another order than the one returned.
C19_Witness ==
  /\ tpc = "done"
  /\ tret.err = NoErr
  /\ Len(tags) >= 3
  /\ tret.images # collected
  /\ \E i \in 1..Len(tret.images) : \E j \in 1..Len(tret.images) :
       /\ i # j
       /\ tret.images[i].CreatedAt # 0
       /\ tret.images[i].CreatedAt = tret.images[j].CreatedAt
  /\ \E i \in 1..Len(tret.images) : tret.images[i].CreatedAt = 0

\* A fetch failed after the results of others had been received.
C19_WitnessError ==
  /\ tpc = "done"
  /\ tret.err # NoErr
  /\ collected # <<>>
  /\ tret.images = <<>>

\* ---------------------------------------------------------------- C20
\* The attempts that the upstream answered with a response.
Answered == { a \in attempts : a.upstream.err = NoErr }

\* C20: in the backoff round tripper a response of status 429 counts as a
\* failure, which raises the ratio of the key and is retried after backing
\* off; every other response counts as a success, which lowers the ratio
\* (or leaves it at 0) and is returned to the caller; and the wait before
\* an attempt is the square of the ratio times the maximum backoff, less
\* the time since the last attempt started.
C20_AsStated ==
  /\ \A a \in Answered :
       IF a.upstream.status = StatusTooManyRequests
       THEN a.after > a.before /\ ~a.returned
       ELSE a.after <= a.before /\ a.returned
  /\ \A w \in waits :
       w.res = ((w.ratio * w.ratio * bmax) \div (Scale * Scale)) - (w.t - w.lastStarted)

\* A response of status 200 was counted as a failure and retried, after a
\* backoff that made the caller sleep, and a response of status 429 was
\* counted as a success and returned to the caller.
C20_Witness ==
  /\ \E a \in Answered :
       /\ a.upstream.status = StatusOK
       /\ ~a.returned
       /\ a.after > a.before
       /\ \E w \in waits : w.key = a.key /\ w.ratio = a.after /\ w.res > 0
  /\ \E a \in Answered :
       /\ a.upstream.status = StatusTooManyRequests
       /\ a.returned
       /\ a.after <= a.before

\* ---------------------------------------------------------------- C21
\* C21: the backoff state is kept per host, user and password. A step
\* changes the ratio or the last-started time that requests with one host,
\* user and password meet only when a caller with exactly that host, user
\* and password takes it; requests with another credential on the same
\* host, or with none, leave it as it was.
C21_PerKey ==
  [][\A q \in BackoffRequests :
       (Key(q) \in DOMAIN backoffs /\ backoffs'[Key(q)] # backoffs[Key(q)])
         => \E c \in Callers : trips[c].req = q /\ trips'[c] # trips[c]]_vars

\* Requests with two credentials for one host have been answered, and
\* their keys have different ratios.
C21_Witness ==
  \E a \in attempts : \E b \in attempts :
     /\ a.key.host = b.key.host
     /\ a.key.user # "" /\ b.key.user # ""
     /\ a.key # b.key
     /\ backoffs[a.key].ratio # backoffs[b.key].ratio

\* A request with a credential and one without for the same host have
\* been answered, and their keys have different last-started times.
C21_WitnessAnonymous ==
  \E a \in attempts : \E b \in attempts :
     /\ a.key.host = b.key.host
     /\ a.key.user # "" /\ b.key.user = ""
     /\ backoffs[a.key].lastStarted # backoffs[b.key].lastStarted

\* ---------------------------------------------------------------- C22
\* What the registry answers to the lookup of the i-th requested image.
Looked(i) == ClientGetImage(query.client, query.ids[i])

\* The registry reports the i-th requested image as existing.
Reported(i) == Looked(i).err = NoErr /\ Looked(i).desc.ID = query.ids[i]

\* The requested images the registry does not report as existing.
Missing == { i \in 1..Len(query.ids) : ~Reported(i) }

\* The error that names an image as not existing.
DoesNotExist(id) ==
  "image " \o Quote(Text(id)) \o " does not exist: " \o InvalidImageText

FirstMissing == CHOOSE i \in Missing : \A j \in Missing : i <= j

C22_WitnessLookupError ==
  /\ op \in {"imageExists", "ExactImages"}
  /\ ~query.client.mock
  /\ query.ids # <<>>
  /\ ~Reported(1)
  /\ ret.err # NoErr
  /\ op = "ExactImages" => ret.err # DoesNotExist(query.ids[1])

\* Two images were requested and both accepted.
C22_WitnessAccepted ==
  /\ op = "ExactImages"
  /\ Len(query.ids) = 2
  /\ query.ids[1] # query.ids[2]
  /\ ret.err = NoErr

\* ---------------------------------------------------------------- C23
\* The update_pod_controller closures that found no manifest file for
\* their service, or more than one.
NoneOrMany ==
  { k \in 1..Len(found) :
      found[k].name = "update_pod_controller" /\ found[k].files \in {"none", "many"} }

\* The closure of the action for the service returned an error.
ReturnedError(name, service) ==
  \E j \in 1..Len(trace) :
     /\ trace[j].ev = "return"
     /\ actions[trace[j].idx].Name = name
     /\ actions[trace[j].idx].Service = service
     /\ trace[j].text # NoErr

\* C23: whenever the update_pod_controller closure finds no manifest file
\* for its service, or more than one, it returns an error and puts nothing
\* into the pod controllers of the release context.
C23_AsStated ==
  \A k \in NoneOrMany :
     /\ ReturnedError("update_pod_controller", found[k].service)
     /\ found[k].service \notin DOMAIN pods

\* An update_pod_controller closure found no manifest file, returned
\* without error, and the release went on to push a commit.
C23_Witness ==
  /\ \E k \in NoneOrMany :
       /\ found[k].files = "none"
       /\ ~ReturnedError("update_pod_controller", found[k].service)
       /\ found[k].service \notin DOMAIN pods
  /\ pushed > 0

\* An update_pod_controller closure found several manifest files and
\* returned an error.
C23_WitnessMany ==
  \E k \in NoneOrMany :
     /\ found[k].files = "many"
     /\ ReturnedError("update_pod_controller", found[k].service)
     /\ found[k].service \notin DOMAIN pods

\* ---------------------------------------------------------------- C24
\* CollectAvailableImages failed because the rate limiter refused a fetch.
CollectRefused ==
  /\ op = "CollectAvailableImages"
  /\ ret.err # NoErr
  /\ \A r \in DOMAIN query.failing : query.failing[r] = TooManyPendingText

\* ExactImages failed because the rate limiter refused a lookup.
ExactRefused ==
  /\ op = "ExactImages"
  /\ Missing # {}
  /\ Looked(FirstMissing).err = TooManyPendingText

\* C24: when the rate limiter refuses a registry lookup with the
\* too-many-pending-requests error, the error that image selection returns
\* has that error as its cause, and not the invalid-image error, both from
\* CollectAvailableImages and from ExactImages.
C24_AsStated ==
  /\ CollectRefused => ret.cause = TooManyPendingText /\ ret.cause # InvalidImageText
  /\ ExactRefused => ret.cause = TooManyPendingText /\ ret.cause # InvalidImageText

\* ExactImages was refused by the rate limiter and returned the
\* invalid-image error.
C24_Witness ==
  /\ ExactRefused
  /\ ret.cause = InvalidImageText
  /\ ret.err = TooManyPendingText \o ": " \o InvalidImageText

\* CollectAvailableImages was refused by the rate limiter and returned an
\* error with the refusal as its cause.
C24_WitnessCollect ==
  /\ CollectRefused
  /\ ret.cause = TooManyPendingText

\* ---------------------------------------------------------------- C25
\* The services of the plan's update_pod_controller actions, in plan order.
UpdateOrder ==
  With(SelectSeq(actions, LAMBDA a : a.Name = "update_pod_controller"), LAMBDA u :
    [i \in 1..Len(u) |-> u[i].Service])

\* The service list of the plan's release_services action.
ReleaseOrder ==
  With(SelectSeq(actions, LAMBDA a : a.Name = "release_services"), LAMBDA r :
    IF r = <<>> THEN <<>> ELSE r[1].Services)

\* C25: planning is deterministic. The plan releaseImages returned for
\* these services and this image map is the plan of every other run on the
\* same inputs, whatever the order in which that run's two loops visit the
\* update map: the update_pod_controller actions and the service list of
\* release_services come in the same order.
C25_AsStated ==
  ImagesPlanned =>
    With(Calc, LAMBDA c :
      \A order1 \in Orders(DOMAIN c.updateMap), order2 \in Orders(DOMAIN c.updateMap) :
         With(releaseImages("", [err |-> NoErr, services |-> services],
                            [err |-> NoErr, cause |-> NoErr, images |-> images],
                            order1, order2).actions, LAMBDA other :
           /\ UpdateOrder = [i \in 1..Len(order1) |->
                               SelectSeq(other, LAMBDA a : a.Name = "update_pod_controller")[i].Service]
           /\ ReleaseOrder = IF order2 = <<>> THEN <<>> ELSE other[Len(other)].Services))

\* A plan for two services with updates whose update_pod_controller
\* actions come in one order and whose release_services list in the other.
C25_Witness ==
  /\ ImagesPlanned
  /\ Len(UpdateOrder) = 2
  /\ Len(ReleaseOrder) = 2
  /\ UpdateOrder # ReleaseOrder
  /\ UpdateOrder # IDsOf(services)

\* ---------------------------------------------------------------- C26
\* Planning failed: Handle returned the planner's error (a failed service
\* selection, an exact image that is not in its registry, a failed fetch)
\* without calling execute.
PlanningFailed == pc = "done" /\ method # "direct" /\ rcCreated = 0

\* A closure of the release found no manifest file for its service, or
\* more than one.
ManifestTrouble == \E k \in 1..Len(found) : found[k].files \in {"none", "many"}

\* Nothing has been changed: no manifest file rewritten, nothing pushed,
\* nothing applied to the platform or handed to a detached apply.
Untouched == disk = <<>> /\ pushed = 0 /\ applied = <<>> /\ async = <<>>

\* C26: a selection error (a failed selection of services or images, an
\* exact image not found in its registry, a missing or ambiguous manifest
\* file of any service of the release) aborts the release with an error
\* before any mutation.
C26_AsStated ==
  (PlanningFailed \/ ManifestTrouble) =>
    /\ Untouched
    /\ pc = "done" => err # NoErr

\* A service of the release had no manifest file; the release went on,
\* pushed a commit, applied to the platform and returned without error.
C26_Witness ==
  /\ \E k \in 1..Len(found) : found[k].files = "none"
  /\ pc = "done"
  /\ err = NoErr
  /\ pushed > 0
  /\ applied # <<>>

\* A service of the release had several manifest files, which stopped the
\* release with an error after the manifest of another had been rewritten.
C26_WitnessAmbiguous ==
  /\ \E k \in 1..Len(found) : found[k].files = "many"
  /\ pc = "done"
  /\ err # NoErr
  /\ disk # <<>>
  /\ pushed = 0 /\ applied = <<>>

\* An exact image was not found in its registry: planning failed and
\* nothing was touched.
C26_WitnessPlanning ==
  /\ PlanningFailed
  /\ err # NoErr
  /\ Untouched
  /\ services # <<>>

\* ---------------------------------------------------------------- C27
\* C27: GetRepository calls Cancel on the remote it created exactly once
\* on every way out after the creation: when listing the tags fails, when
\* the fetch of a tag fails, and when every fetch succeeds. Before it
\* returns, and when no remote was created, Cancel is not called.
C27_CancelOnce ==
  /\ tpc \in {"failed", "done"} => cancels = 1
  /\ ~(tpc \in {"failed", "done"}) => cancels = 0

\* The fetch of a tag failed, after another had succeeded, and the remote
\* has been cancelled.
C27_Witness ==
  /\ tpc = "done"
  /\ tret.err # NoErr
  /\ collected # <<>>
  /\ cancels = 1

\* Listing the tags failed and the remote has been cancelled.
C27_WitnessTags ==
  /\ tpc = "failed"
  /\ tret.err # NoErr
  /\ fetchers = <<>>
  /\ cancels = 1

\* Every fetch succeeded and the remote has been cancelled.
C27_WitnessAll ==
  /\ tpc = "done"
  /\ tret.err = NoErr
  /\ Len(tret.images) >= 2
  /\ cancels = 1

\* ---------------------------------------------------------------- C28
\* The closure of action i returned without error at position n.
Succeeded(n, i) ==
  n \in At("return") /\ trace[n].idx = i /\ trace[n].text = NoErr

\* Every action before action i has the result its closure returned.
ResultsKept(i) ==
  \A j \in 1..(i - 1) :
    IF actions[j].Do
    THEN \E m \in 1..Len(trace) : Succeeded(m, j) /\ actions[j].Result = trace[m].res
    ELSE actions[j].Result = ""

\* The commits the closures reported as pushed are pushed still.
PushesKept ==
  pushed = Cardinality({ m \in At("return") :
                           /\ trace[m].text = NoErr
                           /\ actions[trace[m].idx].Name = "commit_and_push"
                           /\ trace[m].res = "Pushed commit: " \o actions[trace[m].idx].Msg })

\* The failing action's result is "Failed: " and the error text.
FailureRecorded(n) ==
  actions[trace[n].idx].Result = "Failed: " \o trace[n].text

\* The progress sink was sent the error text after the closure returned.
ErrorSent(n) ==
  \E m \in At("updateJob") :
    m > n /\ trace[m].idx = trace[n].idx /\ trace[m].text = trace[n].text

\* C28: when an action fails in execute mode nothing is rolled back: every
\* action before the failing one keeps the result its closure returned,
\* the failing action's Result is "Failed: " followed by the error text,
\* and the error text is sent to the progress sink.
C28_AsStated ==
  \A n \in FailedAt :
    /\ ResultsKept(trace[n].idx)
    /\ PushesKept
    /\ FailureRecorded(n)
    /\ ErrorSent(n)

\* The push failed with a text that ends in a percent sign, after the clone
\* and an update had returned their results, and execute has returned.
C28_Witness ==
  /\ pc = "done"
  /\ kind = ReleaseKindExecute
  /\ \E n \in FailedAt :
       /\ trace[n].text \in EndInPercent
       /\ actions[trace[n].idx].Name = "commit_and_push"
       /\ FailureRecorded(n)
       /\ ~ErrorSent(n)
       /\ \E j \in 1..(trace[n].idx - 1) : actions[j].Result = "Clone OK."

\* ---------------------------------------------------------------- C29
\* Positions at which the closure of an action called name is invoked.
Invoked(name) == { n \in At("do") : actions[trace[n].idx].Name = name }

\* Every action called name has returned without error before position n.
AllSucceededBefore(name, n) ==
  \A i \in Named(name) : \E m \in 1..(n - 1) : Succeeded(m, i)

\* C29: when a plan of releaseImages is executed, the commit-and-push
\* closure is invoked only after the clone closure and every
\* update-manifest closure of the plan returned without error, and the
\* release-services closure, hence the platform's Apply, only after
\* commit-and-push returned without error.
C29_Gated ==
  method = "releaseImages" =>
    /\ \A n \in Invoked("commit_and_push") :
         /\ Named("clone") # {}
         /\ AllSucceededBefore("clone", n)
         /\ AllSucceededBefore("update_pod_controller", n)
    /\ \A n \in Invoked("release_services") :
         /\ Named("commit_and_push") # {}
         /\ AllSucceededBefore("commit_and_push", n)
    /\ applied # <<>> => Invoked("release_services") # {}

\* The release-services closure has been invoked and has called Apply,
\* after two manifests were updated and the commit was pushed.
C29_Witness ==
  /\ method = "releaseImages"
  /\ Cardinality(Named("update_pod_controller")) >= 2
  /\ Invoked("release_services") # {}
  /\ \E k \in 1..Len(applied) : applied[k].sync
  /\ pushed = 1

\* An update-manifest closure failed: execute has returned and neither
\* commit-and-push nor release-services was invoked.
C29_WitnessStopped ==
  /\ method = "releaseImages"
  /\ pc = "done"
  /\ \E n \in FailedAt : actions[trace[n].idx].Name = "update_pod_controller"
  /\ Invoked("commit_and_push") = {}
  /\ Invoked("release_services") = {}
  /\ applied = <<>>

\* ---------------------------------------------------------------- C30
\* C30: a RoundTrip refused with ErrTooManyPendingRequests leaves the
\* nextRequestAt of its host, and of every other host, as it was: the
\* refused request takes no slot and later requests see the backlog that
\* was there before it.
C30_RefusalStoresNothing ==
  [][rejected' # rejected => limits' = limits /\ slots' = slots]_vars

\* After a request to a host was refused, a later request to that host
\* was given a slot that starts before the refused one's would have ended.
C30_Witness ==
  \E x \in rejected, y \in slots :
    /\ y.host = x.host
    /\ y.t > x.t
    /\ y.at < x.next
    /\ limits[x.host].nextRequestAt = y.next

\* ---------------------------------------------------------------- C31
\* C31: with maxBacklog > 0 and a host limit R > 0, a request whose own
\* wait for its slot is at most maxBacklog is never refused; in particular
\* a request that finds no backlog (wait zero) is always permitted.
C31_AsStated ==
  \A x \in rejected : ~(x.wait <= maxBacklog)

\* A request that had not to wait at all was refused.
C31_Witness ==
  /\ maxBacklog > 0
  /\ \E x \in rejected :
       /\ x.wait = 0
       /\ limits[x.host].maxRequestsPerSecond > 0
       /\ x.next - x.t > maxBacklog

\* A request whose wait equals maxBacklog was refused.
C31_WitnessAtBacklog ==
  /\ maxBacklog > 0
  /\ \E x \in rejected : x.wait = maxBacklog

\* ---------------------------------------------------------------- C32
\* The fetch tasks whose lookup has returned and whose result is not yet
\* in the channel.
Sending == { i \in 1..Len(fetchers) : fetchers[i].pc = "send" }

\* The fetch tasks that have put their result into the channel and ended.
Ended == { i \in 1..Len(fetchers) : fetchers[i].pc = "done" }

\* No sending task finds the channel full.
NeverBlocked == Sending # {} => Len(fetched) < Capacity(tags)

\* C32: in tagsToRepository every fetch task terminates after its lookup
\* returned: the channel always has room for its result, also when the
\* collector has returned because of an earlier error.
C32_FetchersTerminate ==
  /\ []NeverBlocked
  /\ \A i \in 1..(MaxTags + 1) : (i \in Sending) ~> (i \in Ended)

\* The collector returned the error of the first result while two results
\* delivered after it lie in the channel, all tasks being over.
C32_Witness ==
  /\ tpc = "done"
  /\ tret.err # NoErr
  /\ Len(fetched) >= 2
  /\ Len(fetchers) >= 3
  /\ \A i \in 1..Len(fetchers) : fetchers[i].pc = "done"

\* ---------------------------------------------------------------- C33
\* tagsToRepository has returned a list: every fetch succeeded.
AllFetched == tpc = "done" /\ tret.err = NoErr

\* The descriptions the fetches returned, in the order of the tags.
InTagOrder == [i \in 1..Len(fetchers) |-> fetchers[i].res.image]

\* Less orders a and b one way at most.
Strict(a, b) == ~(Less(a, b) /\ Less(b, a))

\* C33: when all fetches succeed the returned list depends on the fetched
\* descriptions only, not on the order in which the fetches complete: it
\* is the list the descriptions give when sorted from the order of their
\* tags. byCreatedDesc.Less is a strict order on the fetched descriptions,
\* also on those without a creation time.
C33_AsStated ==
  AllFetched =>
    /\ tret.images = Sort(InTagOrder)
    /\ \A i, j \in 1..Len(collected) : Strict(collected[i], collected[j])

\* Two descriptions without a creation time were fetched, and the list
\* returned is not the one the order of the tags gives.
C33_Witness ==
  /\ AllFetched
  /\ \E i, j \in 1..Len(collected) :
       /\ i # j
       /\ collected[i].CreatedAt = 0 /\ collected[j].CreatedAt = 0
       /\ Less(collected[i], collected[j]) /\ Less(collected[j], collected[i])
  /\ tret.images # Sort(InTagOrder)

\* Every description carries a creation time, the results arrived in
\* another order than the tags, and the list is that of the tag order.
C33_WitnessTimed ==
  /\ AllFetched
  /\ Len(collected) >= 2
  /\ collected # InTagOrder
  /\ \A i \in 1..Len(collected) : collected[i].CreatedAt # 0
  /\ tret.images = Sort(InTagOrder)

\* ---------------------------------------------------------------- C34
\* The services of action i that have a definition in the release
\* context, self services or the others.
Defined(i, self) ==
  { s \in Range(actions[i].Services) : s \in DOMAIN pods /\ IsSelf(s) = self }

\* The detached applies started so far, run or not.
Dispatched == Len(async) + Cardinality(DetachedApplies)

\* C34: one run of the release-services action calls the connector's
\* Apply exactly once synchronously, with the definitions of the non-self
\* services and nothing else, also when there are none; it starts the
\* detached Apply of the self definitions exactly when there is at least
\* one, whatever the synchronous Apply returned.
C34_ApplyOnce ==
  /\ Cardinality(SyncApplies) = Cardinality(Released)
  /\ Released = {} => Dispatched = 0
  /\ \A i \in Released :
       /\ \A n \in SyncApplies :
            /\ Sent(n) = Defined(i, FALSE)
            /\ Len(applied[n].defs) = Cardinality(Defined(i, FALSE))
       /\ Dispatched = IF Defined(i, TRUE) # {} THEN 1 ELSE 0
       /\ \A n \in DetachedApplies : Sent(n) = Defined(i, TRUE)

\* The synchronous Apply returned an error, and the detached Apply of the
\* self definition was started all the same.
C34_Witness ==
  \E i \in Released, n \in SyncApplies :
    /\ applied[n].result.kind # "nil"
    /\ Len(applied[n].defs) >= 1
    /\ Defined(i, TRUE) # {}
    /\ Dispatched = 1

\* The synchronous Apply was called with no definition at all.
C34_WitnessEmpty ==
  \E i \in Released, n \in SyncApplies :
    /\ applied[n].defs = <<>>
    /\ Dispatched = 0

\* ---------------------------------------------------------------- C35
\* The services listed in action i that have no definition in the release
\* context.
Undefined(i) == { s \in Range(actions[i].Services) : s \notin DOMAIN pods }

\* The closure of action i returned at position n, and the synchronous
\* Apply was call m.
ReleaseRun(i, n, m) ==
  i \in Released /\ n \in At("return") /\ trace[n].idx = i /\ m \in SyncApplies

\* The action returns an error exactly when the synchronous Apply did, and
\* so does the release; no service without definition goes to the
\* connector.
ErrorIffApply(i, n, m) ==
  /\ trace[n].text # NoErr <=> applied[m].result.kind # "nil"
  /\ trace[n].text = TransactionText(applied[m].result)
  /\ pc = "done" => err = trace[n].text
  /\ \A k \in 1..Len(applied) : Sent(k) \cap Undefined(i) = {}
  /\ \A k \in 1..Len(async) :
       \A j \in 1..Len(async[k]) : async[k][j].ServiceID \notin Undefined(i)

\* C35 as claimed: the release-services action returns an error if and
\* only if the synchronous Apply returned one; a listed service without
\* definition is never sent to the connector and is reported as failed
\* with "no definition found", without making the action or the release
\* fail.
C35_AsStated ==
  \A i \in Released, n \in 1..Len(trace), m \in 1..Len(applied) :
    ReleaseRun(i, n, m) =>
      /\ ErrorIffApply(i, n, m)
      /\ \A s \in Undefined(i) :
           FailedText(actions[i], NoDefinitionText) \in EventTexts(s)

\* C35: the release-services action returns an error if and only if the
\* synchronous Apply returned one, and no listed service without
\* definition is sent to the connector. Such a service, when not a self
\* service, has one audit event, a failure: with "no definition found"
\* unless Apply returned an error that is no per-service map, and then
\* with that error. A self service without definition has no audit event.
C35_ReleaseServices ==
  \A i \in Released, n \in 1..Len(trace), m \in 1..Len(applied) :
    ReleaseRun(i, n, m) =>
      /\ ErrorIffApply(i, n, m)
      /\ \A s \in Undefined(i) :
           EventTexts(s) =
             IF IsSelf(s) THEN {}
             ELSE IF applied[m].result.kind = "other"
             THEN { FailedText(actions[i], TransactionText(applied[m].result)) }
             ELSE { FailedText(actions[i], NoDefinitionText) }

\* The release is over without error although a listed service had no
\* definition and was reported as failed, next to one that was applied.
C35_Witness ==
  /\ pc = "done" /\ err = NoErr
  /\ \E i \in Released, m \in SyncApplies :
       /\ applied[m].result.kind = "nil"
       /\ Len(applied[m].defs) >= 1
       /\ \E s \in Undefined(i) :
            ~IsSelf(s) /\ EventTexts(s) = { FailedText(actions[i], NoDefinitionText) }

\* A self service without definition: no audit event names it.
C35_WitnessSelf ==
  \E i \in Released : \E s \in Undefined(i) : IsSelf(s) /\ EventTexts(s) = {}

\* A service without definition is reported with the error of the
\* transaction.
C35_WitnessCoverall ==
  \E i \in Released, m \in SyncApplies :
    /\ applied[m].result.kind = "other"
    /\ \E s \in Undefined(i) :
         /\ ~IsSelf(s)
         /\ FailedText(actions[i], NoDefinitionText) \notin EventTexts(s)

\* ---------------------------------------------------------------- C36
\* CollectAvailableImages has returned.
Collected == op = "CollectAvailableImages"

\* The number of calls of GetRepository for repository r.
Fetches(r) == Cardinality({ k \in 1..Len(ret.calls) : ret.calls[k] = r })

\* A fetch that fails gives an error and no image map.
AllOrNothing ==
  /\ ret.err # NoErr <=> \E k \in 1..Len(ret.calls) : ret.calls[k] \in DOMAIN query.failing
  /\ ret.err # NoErr => ret.images = <<>>
  /\ ret.err = NoErr =>
       /\ DOMAIN ret.images = Repos(query.services)
       /\ \A r \in DOMAIN ret.images : ret.images[r] = MapGet(query.registry, r)

C36_WitnessStopped ==
  /\ Collected
  /\ ret.err # NoErr
  /\ \E r \in Repos(query.services) : Fetches(r) = 0

\* Three repositories were fetched without failure.
C36_WitnessAll ==
  /\ Collected
  /\ ret.err = NoErr
  /\ Cardinality(DOMAIN ret.images) = 3

\* ---------------------------------------------------------------- C37
\* C37: after any sequence of Success and Failure calls the failure ratio
\* of a backoff is within [0, 1], and the duration Wait returns never
\* exceeds the maximum backoff the round tripper was made with.
C37_AsStated ==
  /\ \A k \in DOMAIN backoffs : backoffs[k].ratio >= 0 /\ backoffs[k].ratio <= Scale
  /\ \A w \in waits : w.res <= bmax

\* Wait was given a time that lies before the start of the last attempt
\* on its key, and returned more than the maximum backoff.
C37_Witness ==
  \E w \in waits :
    /\ w.t < w.lastStarted
    /\ w.res > bmax
    /\ w.ratio <= Scale

\* ---------------------------------------------------------------- C38
\* The upstream answer r is no rate limiting: a response whose status is
\* not 429, or an error other than the registry client's 429 error.
NotLimited(r) ==
  \/ r.err = NoErr /\ r.status # StatusTooManyRequests
  \/ r.err # NoErr /\ r.err # HAP429Text

\* C38: the backoff RoundTrip returns to its caller as soon as the upstream
\* returns a response whose status is not 429, or an error that is no rate
\* limiting: such a request is never retried.
C38_AsStated ==
  \A a \in attempts : NotLimited(a.upstream) => a.returned

\* The upstream answered 200, and the caller is back at the head of the
\* loop, about to wait and try again.
C38_Witness ==
  \E a \in attempts :
    /\ a.upstream.err = NoErr
    /\ a.upstream.status = StatusOK
    /\ ~a.returned
    /\ trips[a.caller].pc = "wait"

\* An error that is no rate limiting was returned to the caller.
C38_WitnessError ==
  \E a \in attempts :
    /\ a.upstream.err \notin { NoErr, HAP429Text }
    /\ a.returned
    /\ trips[a.caller].pc = "idle"

\* ---------------------------------------------------------------- C39
\* C39: GetImage calls Cancel on the remote it created before it returns,
\* when the lookup succeeded and when it failed, as GetRepository does.
C39_AsStated == tpc = "looked" => cancels = 1

\* GetImage has returned the description it looked up, and Cancel was not
\* called on its remote.
C39_Witness ==
  /\ tpc = "looked"
  /\ tret.err = NoErr
  /\ Len(tret.images) = 1
  /\ cancels = 0

\* GetImage has returned the error of the lookup, and Cancel was not
\* called on its remote.
C39_WitnessError ==
  /\ tpc = "looked"
  /\ tret.err # NoErr
  /\ cancels = 0

\* ---------------------------------------------------------------- C40
\* The containers of service sv that get an update: the repository of the
\* running image has a releasable image and it is another image.
Updatable(sv) ==
  { k \in 1..Len(sv.Containers) :
      With(ParseImageID(sv.Containers[k].Image), LAMBDA cur :
        With(LatestImage(images, Repository(cur)), LAMBDA latest :
          latest # <<>> /\ latest[1].ID # cur)) }

\* u holds one update for each container in K, in the order of the
\* containers of sv.
InContainerOrder(u, sv, K) ==
  /\ Len(u) = Cardinality(K)
  /\ \E f \in [1..Len(u) -> K] :
       /\ \A m, n \in 1..Len(u) : m < n => f[m] < f[n]
       /\ \A n \in 1..Len(u) :
            /\ u[n].Container = sv.Containers[f[n]].Name
            /\ u[n].Current = ParseImageID(sv.Containers[f[n]].Image)

\* C40: in the map CalculateUpdates returns every key is a selected
\* service and maps to a non-empty sequence; every ContainerUpdate has a
\* Target that differs from Current, is the LatestImage of the repository
\* of Current and is not tagged "latest" in any casing; the updates of a
\* service follow the order of its containers, one for each container
\* that has an update, two containers of one name included.
C40_UpdateMap ==
  ImagesPlanned =>
    With(Calc.updateMap, LAMBDA um :
      /\ DOMAIN um \subseteq Range(IDsOf(services))
      /\ \A id \in DOMAIN um : um[id] # <<>>
      /\ \A i \in 1..Len(services) :
           services[i].ID \in DOMAIN um =>
             With(um[services[i].ID], LAMBDA u :
               /\ \A n \in 1..Len(u) :
                    /\ u[n].Current # u[n].Target
                    /\ LatestImage(images, Repository(u[n].Current))
                         = <<LatestImage(images, Repository(u[n].Current))[1]>>
                    /\ u[n].Target
                         = LatestImage(images, Repository(u[n].Current))[1].ID
                    /\ Components(u[n].Target).tag \notin LatestSpellings
               /\ InContainerOrder(u, services[i], Updatable(services[i]))))

\* A selected service has two containers of one name and both have their
\* update, in container order; the repository of the second lists an
\* image tagged latest before the target.
C40_Witness ==
  /\ ImagesPlanned
  /\ \E i \in 1..Len(services) :
       /\ services[i].ID \in DOMAIN Calc.updateMap
       /\ Len(services[i].Containers) = 2
       /\ services[i].Containers[1].Name = services[i].Containers[2].Name
       /\ Len(Calc.updateMap[services[i].ID]) = 2
       /\ Calc.updateMap[services[i].ID][1].Current
            = ParseImageID(services[i].Containers[1].Image)
       /\ Calc.updateMap[services[i].ID][2].Current
            = ParseImageID(services[i].Containers[2].Image)
       /\ Components(MapGet(images,
            Repository(Calc.updateMap[services[i].ID][2].Current))[1].ID).tag
            \in LatestSpellings

\* Two services were selected, and only one of them is a key of the map.
C40_WitnessOneKey ==
  /\ ImagesPlanned
  /\ Len(services) = 2
  /\ ~services[1].Err /\ ~services[2].Err
  /\ Cardinality(DOMAIN Calc.updateMap) = 1

====
